---- MODULE Spec2Model ----
(***************************************************************************)
(* Verification model of the QlassifAI document analysis pipeline:         *)
(*   - TextChunker   (src/src/text_chunker.py)                             *)
(*   - LLMAnalyzer   (src/src/llm_analyzer.py)                             *)
(*   - ResultMerger  (src/src/result_merger.py)                            *)
(*   - KeywordCategorizer (src/src/keyword_categorizer.py)                 *)
(*   - process_pdf_mode   (src/src/pdf_workflow.py)                        *)
(*   - CheckAttribute     (src/src/models.py)                              *)
(* Each component is a sequential procedure; it is modelled as a state     *)
(* machine over its own variables and has its own specification            *)
(* (SpecChunker, SpecAnalyzer, SpecMerger, SpecAssign, SpecCategorizer,    *)
(* SpecBatch, SpecSchema).  The variables of the other components stay at  *)
(* their idle values.                                                      *)
(***************************************************************************)
EXTENDS Integers, Sequences, FiniteSets, TLC

VARIABLES
    \* ---- TextChunker.chunk_text ----
    text,              \* the argument `text`
    current_position,  \* local current_position
    chunk_id,          \* local chunk_id
    chunks,            \* local list `chunks` / the returned list
    cpc,               \* control point of chunk_text
    \* ---- LLMAnalyzer.analyze_text ----
    a_text,            \* the argument `text`
    max_retries,       \* the argument `max_retries`
    attempt,           \* loop variable `attempt`
    requests,          \* number of client.chat.completions.create calls made
    sleeps,            \* the time.sleep durations, in call order
    response,          \* outcome of the latest request
    result,            \* the returned AnalysisResult
    apc,               \* control point of analyze_text
    prompt,            \* local `prompt`
    sent,              \* the prompts of the requests made, in call order
    \* ---- ResultMerger.merge_results ----
    chunk_results,     \* the argument `chunk_results`
    check_attributes,  \* the argument `check_attributes`
    merged,            \* the returned MergedResult
    mpc,               \* control point of merge_results
    \* ---- KeywordCategorizer.categorize_all / assign_categories ----
    k_results,         \* the argument `results` (assign_categories: <<result>>)
    k_all_keywords,    \* local all_keywords
    category_mapping,  \* local / argument category_mapping
    category_assignments, \* local category_assignments / the returned lists
    k_tiers,           \* per record, the tier that matched each keyword
    k_response,        \* outcome of the clustering request
    kpc,               \* control point of the categorizer
    \* ---- process_pdf_mode and the row loop of main ----
    pdf_files,         \* the discovered documents
    pdf_idx,           \* number of documents the loop has finished
    p_text,            \* local text of the current document
    p_chunks,          \* local chunks of the current document
    p_next,            \* number of chunks of the current document analysed
    p_results,         \* the value of `result` for each analysed chunk, in order
    p_chunk_results,   \* local chunk_results of the current document
    p_merged,          \* local merged_result
    merged_results,    \* local merged_results / the returned list
    sheet_infos,       \* main: the sheets, each the list of its row texts
    s_idx,             \* main: number of sheets finished
    r_idx,             \* main: number of rows of the current sheet finished
    sheet_results,     \* main: local sheet_results
    all_results,       \* main: local all_results
    stats,             \* the PDFProcessingStats / ProcessingStats
    ppc,               \* control point of the batch
    \* ---- CheckAttribute(...) ----
    attr_args,         \* the arguments question, answer_type, categories
    check_attribute,   \* the constructed CheckAttribute
    spc                \* control point of the construction

chunkerVars == <<text, current_position, chunk_id, chunks, cpc>>

analyzerVars ==
    <<a_text, max_retries, attempt, requests, sleeps, response, result, apc, prompt, sent>>

mergerVars == <<chunk_results, check_attributes, merged, mpc>>

categorizerVars ==
    <<k_results, k_all_keywords, category_mapping, category_assignments, k_tiers, k_response,
      kpc>>

pipelineVars ==
    <<pdf_files, pdf_idx, p_text, p_chunks, p_next, p_results, p_chunk_results, p_merged,
      merged_results, sheet_infos, s_idx, r_idx, sheet_results, all_results, stats, ppc>>

schemaVars == <<attr_args, check_attribute, spc>>

vars ==
    <<chunkerVars, analyzerVars, mergerVars, categorizerVars, pipelineVars, schemaVars>>

\* ------------------------------------------------------------------------
\* Generic helpers
\* ------------------------------------------------------------------------
Min(a, b) == IF a < b THEN a ELSE b

Max(a, b) == IF a > b THEN a ELSE b

Abs(x) == IF x < 0 THEN -x ELSE x

SetMin(S) == CHOOSE x \in S : \A y \in S : x <= y

SetMax(S) == CHOOSE x \in S : \A y \in S : x >= y

\* ------------------------------------------------------------------------
\* Idle values: a component that is not running in a specification
\* ------------------------------------------------------------------------
\* Python None in an Optional[str] field
None == "<None>"

NoResult == [idle |-> TRUE]

NoResponse == [kind |-> "idle"]

AnalyzerIdle ==
    /\ a_text = ""
    /\ max_retries = 0
    /\ attempt = 0
    /\ requests = 0
    /\ sleeps = <<>>
    /\ response = NoResponse
    /\ result = NoResult
    /\ apc = "idle"
    /\ prompt = None
    /\ sent = <<>>

MergerIdle ==
    /\ chunk_results = <<>>
    /\ check_attributes = <<>>
    /\ merged = NoResult
    /\ mpc = "idle"

\* JSON values of custom_checks entries: null, a boolean, a string, a list of
\* strings.  A str built by str.join is held in `l` as the sequence of its
\* pieces, separators included (kind "joined").
JNull == [t |-> "null", b |-> FALSE, s |-> "", l |-> <<>>]

JBool(b) == [t |-> "bool", b |-> b, s |-> "", l |-> <<>>]

JStr(s) == [t |-> "str", b |-> FALSE, s |-> s, l |-> <<>>]

JList(l) == [t |-> "list", b |-> FALSE, s |-> "", l |-> l]

Joined(l) == [t |-> "joined", b |-> FALSE, s |-> "", l |-> l]

ChunkerIdle ==
    /\ text = [len |-> 0, ws |-> {}, tm |-> {}]
    /\ current_position = 0
    /\ chunk_id = 0
    /\ chunks = <<>>
    /\ cpc = "idle"

CategorizerIdle ==
    /\ k_results = <<>>
    /\ k_all_keywords = <<>>
    /\ category_mapping = <<>>
    /\ category_assignments = <<>>
    /\ k_tiers = <<>>
    /\ k_response = NoResponse
    /\ kpc = "idle"

NoStats == [idle |-> TRUE]

NoArguments == [idle |-> TRUE]

SchemaIdle ==
    /\ attr_args = NoArguments
    /\ check_attribute = NoResult
    /\ spc = "idle"

PipelineIdle ==
    /\ pdf_files = <<>>
    /\ pdf_idx = 0
    /\ p_text = [len |-> 0, ws |-> {}, tm |-> {}]
    /\ p_chunks = <<>>
    /\ p_next = 0
    /\ p_results = <<>>
    /\ p_chunk_results = <<>>
    /\ p_merged = NoResult
    /\ merged_results = <<>>
    /\ sheet_infos = <<>>
    /\ s_idx = 0
    /\ r_idx = 0
    /\ sheet_results = <<>>
    /\ all_results = <<>>
    /\ stats = NoStats
    /\ ppc = "idle"

\* ========================================================================
\* TextChunker
\* ========================================================================
\* A text is represented by its length and by the positions of the two
\* character classes the chunker distinguishes: whitespace (str.isspace /
\* regex \s) and sentence terminators ('.', '!', '?').  Every other position
\* holds an ordinary character.
\*   [len |-> n, ws |-> set of positions, tm |-> set of positions]

CHUNK_SIZE == 30000

SEARCH_WINDOW == 500

WHITESPACE_RADIUS == 1000

\* --- bounds of the explored inputs ---
\* number of special items (a whitespace, or a terminator followed by a
\* whitespace) placed in one text
MaxSpecial == 2

\* Offsets, relative to a multiple of CHUNK_SIZE, at which special items are
\* placed: the edges of the sentence window and of the two whitespace scans.
Offsets == {0 - 1000, 0 - 999, 0 - 500, 0 - 2, 0 - 1, 0, 1, 498, 499, 999, 1000}

Bases == {CHUNK_SIZE, 2 * CHUNK_SIZE}

Lengths == {0, 1, CHUNK_SIZE, CHUNK_SIZE + 1, CHUNK_SIZE + 2, CHUNK_SIZE + 1001,
            2 * CHUNK_SIZE + 2, 65000}

Items == {[pos |-> b + o, kind |-> k] : b \in Bases, o \in Offsets, k \in {"ws", "sb"}}

RECURSIVE SubsetsUpTo(_, _)
SubsetsUpTo(S, k) ==
    IF k = 0 THEN {{}}
    ELSE LET smaller == SubsetsUpTo(S, k - 1)
         IN  smaller \cup {s \cup {x} : s \in smaller, x \in S}

\* The text of length n that holds the given items (items past the end are cut).
MkText(n, items) ==
    LET wsAll == {i.pos : i \in {j \in items : j.kind = "ws"}}
                 \cup {i.pos + 1 : i \in {j \in items : j.kind = "sb"}}
        tmAll == {i.pos : i \in {j \in items : j.kind = "sb"}}
        ws    == {p \in wsAll : p < n}
    IN  [len |-> n, ws |-> ws, tm |-> {p \in tmAll : p < n /\ p \notin ws}]

Texts == {MkText(n, items) : n \in Lengths, items \in SubsetsUpTo(Items, MaxSpecial)}

\* Python slice text[a:b] for 0 <= a (b is clamped to the length).
Slice(t, a, b) ==
    LET e == Min(b, t.len)
        s == Min(a, e)
    IN  [len |-> e - s,
         ws  |-> {p - s : p \in {q \in t.ws : s <= q /\ q < e}},
         tm  |-> {p - s : p \in {q \in t.tm : s <= q /\ q < e}}]

\* a + b for texts (used to state that no character is lost)
Concat(a, b) ==
    [len |-> a.len + b.len,
     ws  |-> a.ws \cup {p + a.len : p \in b.ws},
     tm  |-> a.tm \cup {p + a.len : p \in b.tm}]

EmptyString == [len |-> 0, ws |-> {}, tm |-> {}]

\* End of the greedy \s+ run that starts at position q of window w.
RECURSIVE RunEnd(_, _)
RunEnd(w, q) == IF q < w.len /\ q \in w.ws THEN RunEnd(w, q + 1) ELSE q

\* m.end() of every match of SENTENCE_ENDINGS = [.!?]\s+ in window w
\* (finditer: a terminator directly followed by at least one whitespace).
SentenceMatchEnds(w) ==
    {RunEnd(w, p + 1) : p \in {q \in w.tm : q + 1 < w.len /\ (q + 1) \in w.ws}}

\* models _find_nearest_whitespace with the backward scan not limited to
\* WHITESPACE_RADIUS (range(target_position, 0, -1))
FindNearestWhitespaceUnbounded(t, target_position) ==
    LET fwd == {i \in t.ws : target_position <= i
                             /\ i < Min(t.len, target_position + WHITESPACE_RADIUS)}
        bwd == {i \in t.ws : 0 < i /\ i <= target_position}
    IN  IF fwd # {} THEN SetMin(fwd) + 1
        ELSE IF bwd # {} THEN SetMax(bwd) + 1
        ELSE target_position

FindNearestWhitespace(t, target_position) ==
    LET fwd == {i \in t.ws : target_position <= i
                             /\ i < Min(t.len, target_position + WHITESPACE_RADIUS)}
        bwd == {i \in t.ws : Max(0, target_position - WHITESPACE_RADIUS) < i
                             /\ i <= target_position}
    IN  IF fwd # {} THEN SetMin(fwd) + 1
        ELSE IF bwd # {} THEN SetMax(bwd) + 1
        ELSE target_position

\* a mutant of FindSplitPoint: the sentence window is not searched
FindSplitPointWhitespaceOnly(t, target_position) ==
    FindNearestWhitespace(t, target_position)

FindSplitPoint(t, target_position) ==
    LET search_start  == Max(0, target_position - SEARCH_WINDOW)
        search_end    == Min(t.len, target_position + SEARCH_WINDOW)
        search_window == Slice(t, search_start, search_end)
        ends          == SentenceMatchEnds(search_window)
        target_offset == target_position - search_start
        \* min(..., key=abs(m.end() - target_offset)): the first of the closest
        best          == {e \in ends : \A f \in ends :
                              Abs(e - target_offset) <= Abs(f - target_offset)}
    IN  IF ends = {} THEN FindNearestWhitespace(t, target_position)
        ELSE search_start + SetMin(best)

\* Chunk(...) as built at an end position one too small (inclusive end)
NewChunkInclusiveEnd(id, t, s, e) ==
    LET ct == Slice(t, s, e)
    IN  [chunk_id |-> id, text |-> ct, char_count |-> ct.len,
         start_position |-> s, end_position |-> e - 1]

\* Chunk(chunk_id=id, text=text[s:e], char_count=len(..), start_position=s,
\*       end_position=e)
NewChunk(id, t, s, e) ==
    LET ct == Slice(t, s, e)
    IN  [chunk_id |-> id, text |-> ct, char_count |-> ct.len,
         start_position |-> s, end_position |-> e]

\* Chunk.__post_init__ raises ValueError unless this holds
ChunkValid(c) ==
    /\ c.chunk_id >= 0
    /\ c.char_count >= 0
    /\ c.start_position >= 0
    /\ c.end_position >= c.start_position
    /\ c.char_count = c.text.len

ChunkerInit ==
    /\ text \in Texts
    /\ current_position = 0
    /\ chunk_id = 0
    /\ chunks = <<>>
    /\ cpc = "start"
    /\ AnalyzerIdle
    /\ MergerIdle
    /\ CategorizerIdle
    /\ PipelineIdle
    /\ SchemaIdle

\* if text_length <= CHUNK_SIZE: return [Chunk(0, text, ...)]
SingleChunk ==
    /\ cpc = "start"
    /\ text.len <= CHUNK_SIZE
    /\ LET c == NewChunk(0, text, 0, text.len)
       IN  IF ChunkValid(c)
           THEN chunks' = <<c>> /\ cpc' = "done"
           ELSE chunks' = chunks /\ cpc' = "raised"
    /\ UNCHANGED <<text, current_position, chunk_id>>
    /\ UNCHANGED <<analyzerVars, mergerVars, categorizerVars, pipelineVars, schemaVars>>

\* chunks = []; current_position = 0; chunk_id = 0
BeginLoop ==
    /\ cpc = "start"
    /\ text.len > CHUNK_SIZE
    /\ chunks' = <<>>
    /\ current_position' = 0
    /\ chunk_id' = 0
    /\ cpc' = "loop"
    /\ UNCHANGED text
    /\ UNCHANGED <<analyzerVars, mergerVars, categorizerVars, pipelineVars, schemaVars>>

\* loop body, branch target_end >= text_length: last chunk, break
LastChunk ==
    /\ cpc = "loop"
    /\ current_position < text.len
    /\ current_position + CHUNK_SIZE >= text.len
    /\ LET c == NewChunk(chunk_id, text, current_position, text.len)
       IN  IF ChunkValid(c)
           THEN chunks' = Append(chunks, c) /\ cpc' = "done"
           ELSE chunks' = chunks /\ cpc' = "raised"
    /\ UNCHANGED <<text, current_position, chunk_id>>
    /\ UNCHANGED <<analyzerVars, mergerVars, categorizerVars, pipelineVars, schemaVars>>

\* loop body, branch target_end < text_length: split at _find_split_point
SplitChunk ==
    /\ cpc = "loop"
    /\ current_position < text.len
    /\ current_position + CHUNK_SIZE < text.len
    /\ LET target_end  == current_position + CHUNK_SIZE
           split_point == FindSplitPoint(text, target_end)
           c           == NewChunk(chunk_id, text, current_position, split_point)
       IN  IF ChunkValid(c)
           THEN /\ chunks' = Append(chunks, c)
                /\ current_position' = split_point
                /\ chunk_id' = chunk_id + 1
                /\ cpc' = "loop"
           ELSE /\ cpc' = "raised"
                /\ UNCHANGED <<chunks, current_position, chunk_id>>
    /\ UNCHANGED text
    /\ UNCHANGED <<analyzerVars, mergerVars, categorizerVars, pipelineVars, schemaVars>>

\* while condition false: return chunks
LoopExit ==
    /\ cpc = "loop"
    /\ current_position >= text.len
    /\ cpc' = "done"
    /\ UNCHANGED <<text, current_position, chunk_id, chunks>>
    /\ UNCHANGED <<analyzerVars, mergerVars, categorizerVars, pipelineVars, schemaVars>>

ChunkerNext == SingleChunk \/ BeginLoop \/ LastChunk \/ SplitChunk \/ LoopExit

SpecChunker == ChunkerInit /\ [][ChunkerNext]_vars

\* concatenation of the texts of all chunks, in order
RECURSIVE ConcatChunks(_)
ConcatChunks(cs) ==
    IF cs = <<>> THEN EmptyString ELSE Concat(Head(cs).text, ConcatChunks(Tail(cs)))

\* C1: chunk_text returns n >= 1 chunks, numbered 0..n-1 in order, the first
\* starting at 0, each ending where the next starts, the last ending at
\* len(text), each holding exactly text[start:end]; the ranges partition
\* [0, len(text)) and the chunk texts concatenate to the text.
C1_Partition ==
    /\ cpc # "raised"
    /\ cpc = "done" =>
          /\ Len(chunks) >= 1
          /\ \A i \in 1..Len(chunks) :
                /\ chunks[i].chunk_id = i - 1
                /\ chunks[i].start_position <= chunks[i].end_position
                /\ chunks[i].text =
                      Slice(text, chunks[i].start_position, chunks[i].end_position)
                /\ chunks[i].text.len =
                      chunks[i].end_position - chunks[i].start_position
          /\ chunks[1].start_position = 0
          /\ \A i \in 1..(Len(chunks) - 1) :
                chunks[i].end_position = chunks[i + 1].start_position
          /\ chunks[Len(chunks)].end_position = text.len
          /\ ConcatChunks(chunks) = text

\* a returned list of three chunks whose split points were moved off the
\* multiples of CHUNK_SIZE by a sentence boundary or a whitespace
C1_Witness ==
    /\ cpc = "done"
    /\ Len(chunks) = 3
    /\ chunks[1].end_position # CHUNK_SIZE
    /\ chunks[2].end_position # chunks[1].end_position + CHUNK_SIZE
    /\ text.tm # {}

\* C2: chunk_text terminates: every pass of the loop either returns or
\* moves current_position strictly forward and never past len(text) (so the
\* distance to the end of the text strictly decreases); this includes texts
\* without any sentence terminator or whitespace.
C2_Terminates ==
    [][cpc = "loop" =>
          /\ cpc' \in {"loop", "done"}
          /\ cpc' = "loop" =>
                /\ current_position < current_position'
                /\ current_position' <= text.len
                /\ text' = text]_vars

\* a text without any sentence terminator or whitespace, split into three
\* chunks and returned
C2_Witness ==
    /\ cpc = "done"
    /\ text.ws = {}
    /\ text.tm = {}
    /\ Len(chunks) = 3

\* ---- C24 ----
\* the end offsets (positions in the text) of the sentence boundaries that
\* lie in the window [target_end - 500, target_end + 500): a terminator with
\* at least one whitespace after it inside the window; the boundary ends
\* where the run of whitespace ends, or at the end of the window
BoundaryEnds(t, target_end) ==
    LET lo == target_end - 500
        hi == IF t.len < target_end + 500 THEN t.len ELSE target_end + 500
    IN  {e \in (lo + 2)..hi :
            \E p \in t.tm :
                /\ lo <= p
                /\ p + 1 < e
                /\ \A q \in (p + 1)..(e - 1) : q \in t.ws
                /\ e = hi \/ e \notin t.ws}

\* the whitespace positions the forward scan meets, and those the backward
\* scan meets
ForwardWhitespace(t, target_end) ==
    {i \in t.ws : target_end <= i /\ i < target_end + 1000 /\ i < t.len}

BackwardWhitespace(t, target_end) ==
    {i \in t.ws : target_end - 1000 < i /\ i <= target_end}

\* the split point the priority rule allows for target_end
SplitByPriority(t, target_end, split) ==
    LET ends == BoundaryEnds(t, target_end)
        fwd  == ForwardWhitespace(t, target_end)
        bwd  == BackwardWhitespace(t, target_end)
    IN  IF ends # {}
        THEN /\ split \in ends
             /\ \A e \in ends : Abs(split - target_end) <= Abs(e - target_end)
        ELSE IF fwd # {}
        THEN /\ split - 1 \in fwd
             /\ \A i \in fwd : split - 1 <= i
        ELSE IF bwd # {}
        THEN /\ split - 1 \in bwd
             /\ \A i \in bwd : i <= split - 1
        ELSE split = target_end

\* C24: the split point for target_end = current_position + CHUNK_SIZE
\* (target_end < len(text)) follows a strict priority: the end of the
\* sentence boundary closest to target_end if the window of 500 characters
\* to either side holds one; otherwise the position after the first
\* whitespace scanning forward within 1000 characters; otherwise the position
\* after the first whitespace scanning backward within 1000 characters;
\* otherwise target_end.
C24_SplitPriority ==
    [][(cpc = "loop" /\ cpc' = "loop") =>
          /\ current_position + CHUNK_SIZE < text.len
          /\ SplitByPriority(text, current_position + CHUNK_SIZE, current_position')]_vars

\* a whitespace sits exactly at the first target position, yet the first
\* chunk ends at the end of a sentence boundary 500 characters later
C24_Witness ==
    /\ cpc = "done"
    /\ CHUNK_SIZE \in text.ws
    /\ Len(chunks) >= 2
    /\ chunks[1].end_position = CHUNK_SIZE + 500

\* the first split was made after a whitespace found by the backward scan
SplitByBackwardScan ==
    /\ cpc = "done"
    /\ Len(chunks) >= 2
    /\ text.tm = {}
    /\ chunks[1].end_position = CHUNK_SIZE - 998

\* the first split was made after a whitespace found by the forward scan
SplitByForwardScan ==
    /\ cpc = "done"
    /\ Len(chunks) >= 2
    /\ text.tm = {}
    /\ chunks[1].end_position = CHUNK_SIZE + 1000

\* ========================================================================
\* LLMAnalyzer
\* ========================================================================
\* --- bounds of the explored inputs ---
\* largest value of the argument max_retries
MaxRetries == 3

\* The argument `text`: empty, whitespace only, or with content.
InputTexts == {"", "   ", "Ein Text."}

\* a mutant of StripText: nothing is stripped
StripTextIdentity(t) == t

\* str.strip() on the input texts
StripText(t) == IF t = "   " THEN "" ELSE t

\* A response body is a sequence of lines.  A line is a code fence, a fence
\* with a language tag, a blank (whitespace) line, a JSON object, a JSON value
\* that is not an object, or text that is not JSON.
\* the line of three backticks
FENCE == "<fence>"

\* three backticks followed by the language tag json
FENCE_JSON == "<fence>json"

BLANK == " "

OBJECT == "{...}"

ARRAY == "[...]"

GARBAGE == "Hier ist das Ergebnis"

LineKinds == {FENCE, FENCE_JSON, BLANK, OBJECT, ARRAY, GARBAGE}

\* The bodies explored: empty, whitespace only, fences around nothing, text
\* that is not JSON, JSON that is not an object, an object (bare, fenced,
\* fenced without closing fence, surrounded by blank lines), an object
\* followed by other text.
Bodies == {<<>>, <<BLANK>>, <<FENCE>>, <<FENCE_JSON, FENCE>>, <<FENCE, BLANK, FENCE>>,
           <<GARBAGE>>, <<ARRAY>>, <<FENCE_JSON, ARRAY, FENCE>>, <<OBJECT, GARBAGE>>,
           <<OBJECT>>, <<FENCE_JSON, OBJECT, FENCE>>, <<FENCE, OBJECT>>,
           <<BLANK, OBJECT, BLANK>>}

\* str.strip() on a body: leading and trailing whitespace lines go
RECURSIVE LStrip(_)
LStrip(b) == IF b # <<>> /\ Head(b) = BLANK THEN LStrip(Tail(b)) ELSE b

RECURSIVE RStrip(_)
RStrip(b) ==
    IF b # <<>> /\ b[Len(b)] = BLANK THEN RStrip(SubSeq(b, 1, Len(b) - 1)) ELSE b

Strip(b) == RStrip(LStrip(b))

\* _clean_json_response
CleanJsonResponse(response_text) ==
    IF response_text # <<>> /\ Head(response_text) \in {FENCE, FENCE_JSON}
    THEN LET lines1 == Tail(response_text)
             lines2 == IF lines1 # <<>> /\ lines1[Len(lines1)] = FENCE
                       THEN SubSeq(lines1, 1, Len(lines1) - 1)
                       ELSE lines1
         IN  Strip(lines2)
    ELSE Strip(response_text)

\* keyword names of raw responses
KeywordNames == <<"k1", "k2", "k3", "k4", "k5", "k6", "k7", "k8", "k9", "k10", "k11", "k12">>

\* a JSON list of n keywords / JSON null
JsonList(n) == [list |-> TRUE, items |-> SubSeq(KeywordNames, 1, n)]

JsonNull == [list |-> FALSE, items |-> <<>>]

EmptyMap == <<>>

\* The JSON object a body line OBJECT stands for: a map from a subset of the
\* keys to values.
RawSentiments == {"positiv", "negativ", "gemischt", "neutral"}

\* numbers of keywords in a raw response
RawKeywordCounts == {0, 1, 2, 3, 4, 5, 10}

RawKeywords == {JsonList(n) : n \in RawKeywordCounts} \cup {JsonNull}

\* the keys other than sentiment and keywords: all absent, or all present
RawExtras ==
    {EmptyMap,
     [k \in {"paraphrase", "sentiment_reason", "custom_checks", "custom_checks_reasons"} |->
        CASE k = "paraphrase" -> "Zusammenfassung"
          [] k = "sentiment_reason" -> "Begruendung"
          [] k = "custom_checks" -> [q \in {"q1"} |-> JBool(TRUE)]
          [] k = "custom_checks_reasons" -> [q \in {"q1"} |-> "weil"]]}

DataObjects ==
    LET sents == {EmptyMap} \cup {[k \in {"sentiment"} |-> v] : v \in RawSentiments}
        kws   == {EmptyMap} \cup {[k \in {"keywords"} |-> v] : v \in RawKeywords}
    IN  {a @@ b @@ c : a \in sents, b \in kws, c \in RawExtras}

\* dict.get(key, default)
Get(data, key, default) == IF key \in DOMAIN data THEN data[key] ELSE default

\* response.usage: None, or token counts
Usages == {[present |-> FALSE, prompt_tokens |-> 0, completion_tokens |-> 0, total_tokens |-> 0],
           [present |-> TRUE, prompt_tokens |-> 5, completion_tokens |-> 2, total_tokens |-> 7]}

NoUsage == [present |-> FALSE, prompt_tokens |-> 0, completion_tokens |-> 0, total_tokens |-> 0]

\* AnalysisResult(...) with the token counters at their default 0
AnalysisResult(paraphrase, sentiment, sentiment_reason, keywords, custom_checks, custom_checks_reasons, error) ==
    [paraphrase |-> paraphrase, sentiment |-> sentiment,
     sentiment_reason |-> sentiment_reason, keywords |-> keywords,
     custom_checks |-> custom_checks, custom_checks_reasons |-> custom_checks_reasons,
     error |-> error, prompt_tokens |-> 0, completion_tokens |-> 0, total_tokens |-> 0]

ValidSentiments == {"positiv", "negativ", "gemischt"}

\* AnalysisResult.__post_init__ raises ValueError unless this holds
AnalysisResultValid(r) ==
    /\ r.sentiment \in ValidSentiments
    /\ 2 <= Len(r.keywords) /\ Len(r.keywords) <= 4

\* sentiment validation of _parse_llm_response without the coercion
CoerceSentimentKeep(sentiment) == sentiment

\* sentiment validation of _parse_llm_response
CoerceSentiment(sentiment) ==
    IF sentiment \notin ValidSentiments THEN "gemischt" ELSE sentiment

\* keyword validation of _parse_llm_response, truncating to 5
NormalizeKeywordsFive(keywords) ==
    IF Len(keywords) < 2
    THEN keywords \o [i \in 1..(2 - Len(keywords)) |-> "unbekannt"]
    ELSE IF Len(keywords) > 4 THEN SubSeq(keywords, 1, 5)
    ELSE keywords

\* keyword validation of _parse_llm_response
NormalizeKeywords(keywords) ==
    IF Len(keywords) < 2
    THEN keywords \o [i \in 1..(2 - Len(keywords)) |-> "unbekannt"]
    ELSE IF Len(keywords) > 4 THEN SubSeq(keywords, 1, 4)
    ELSE keywords

\* _parse_llm_response(response_text): [ok |-> TRUE, result |-> AnalysisResult]
\* or [ok |-> FALSE, error |-> message of the ValueError raised].
\* `data` is the object the line OBJECT decodes to.
ParseLLMResponse(response_text, data) ==
    LET cleaned == CleanJsonResponse(response_text)
        Fail(msg) == [ok |-> FALSE, error |-> msg, result |-> NoResult]
    IN  IF cleaned = <<>>
        THEN Fail("LLM hat leere Antwort zurueckgegeben")
        ELSE IF cleaned = <<ARRAY>>
        \* json.loads gives a non-dict: data.get raises AttributeError
        THEN Fail("Fehler beim Parsen der LLM-Antwort")
        ELSE IF cleaned # <<OBJECT>>
        \* json.JSONDecodeError
        THEN Fail("Ungueltiges JSON vom LLM")
        ELSE LET paraphrase == Get(data, "paraphrase", "")
                 sentiment  == Get(data, "sentiment", "gemischt")
                 reason     == Get(data, "sentiment_reason", "")
                 keywords   == Get(data, "keywords", JsonList(0))
                 checks     == Get(data, "custom_checks", EmptyMap)
                 reasons    == Get(data, "custom_checks_reasons", EmptyMap)
             IN  IF ~keywords.list
                 \* len(None) raises TypeError
                 THEN Fail("Fehler beim Parsen der LLM-Antwort")
                 ELSE LET r == AnalysisResult(paraphrase, CoerceSentiment(sentiment),
                                              reason, NormalizeKeywords(keywords.items),
                                              checks, reasons, None)
                      IN  IF AnalysisResultValid(r)
                          THEN [ok |-> TRUE, error |-> None, result |-> r]
                          ELSE Fail("Fehler beim Parsen der LLM-Antwort")

\* range(max_retries) with one attempt too many
AttemptsRangeInclusive(m) == 0..m

\* range(max_retries)
AttemptsRange(m) == 0..(m - 1)

\* the failed results analyze_text builds
EmptyTextResult ==
    AnalysisResult("", "gemischt", "", <<"leer", "keine">>, EmptyMap, EmptyMap, "Leerer Text")

MissingBodyResult ==
    AnalysisResult("", "gemischt", "", <<"fehler", "keine-antwort">>, EmptyMap, EmptyMap,
                   "LLM hat nach mehreren Versuchen None zurueckgegeben")

TimeoutResult ==
    AnalysisResult("", "gemischt", "", <<"fehler", "timeout">>, EmptyMap, EmptyMap,
                   "API-Timeout nach max_retries Versuchen")

RateLimitResult ==
    AnalysisResult("", "gemischt", "", <<"fehler", "rate-limit">>, EmptyMap, EmptyMap,
                   "Rate-Limit nach max_retries Versuchen")

APIErrorResult ==
    AnalysisResult("", "gemischt", "", <<"fehler", "api">>, EmptyMap, EmptyMap, "str(APIError)")

\* the parse-error result with a third sentinel keyword
ParseErrorResultThree(msg) ==
    AnalysisResult("", "gemischt", "", <<"fehler", "parse", "json">>, EmptyMap, EmptyMap, msg)

ParseErrorResult(msg) ==
    AnalysisResult("", "gemischt", "", <<"fehler", "parse">>, EmptyMap, EmptyMap, msg)

UnexpectedResult ==
    AnalysisResult("", "gemischt", "", <<"fehler", "unbekannt">>, EmptyMap, EmptyMap,
                   "str(Exception)")

FallThroughResult ==
    AnalysisResult("", "gemischt", "", <<"fehler", "unbekannt">>, EmptyMap, EmptyMap,
                   "Maximale Versuche erreicht")

\* the prompt built from the text (the check attributes and the research
\* question are fixed during a call)
BuildAnalysisPrompt(t) == [text |-> t]

\* a mutant of TimeoutWait: linear instead of exponential
TimeoutWaitLinear(k) == 2 * k

\* wait_time = 2 ** attempt
TimeoutWait(k) == 2 ^ k

\* a mutant of RateLimitWait: the factor is the 0-based attempt
RateLimitWaitFromZero(k) == 5 * k

\* wait_time = 5 * (attempt + 1)
RateLimitWait(k) == 5 * (k + 1)

\* a mutant of ParseWait: the backoff of the timeout branch
ParseWaitBackoff(k) == 2 ^ k

\* time.sleep(1)
ParseWait(k) == 1

\* a mutant of MissingBodyWait: the wait of the parse-error branch
MissingBodyWaitOne(k) == <<1>>

\* a mutant of MoreAttempts: the last permitted attempt counts as well
MoreAttemptsInclusive(k, m) == k < m

\* `if attempt < max_retries - 1`: the failed attempt k is not the last one
MoreAttempts(k, m) == k < m - 1

\* `continue` on a None body: no time.sleep call
MissingBodyWait(k) == <<>>

Response(kind, body, data, usage) ==
    [kind |-> kind, body |-> body, data |-> data, usage |-> usage]

AnalyzerInit ==
    /\ a_text \in InputTexts
    /\ max_retries \in 0..MaxRetries
    /\ attempt = 0
    /\ requests = 0
    /\ sleeps = <<>>
    /\ response = NoResponse
    /\ result = NoResult
    /\ apc = "start"
    /\ prompt = None
    /\ sent = <<>>
    /\ ChunkerIdle
    /\ MergerIdle
    /\ CategorizerIdle
    /\ PipelineIdle
    /\ SchemaIdle

\* `return AnalysisResult(...)`: the constructor validates and may raise
Return(r) ==
    /\ IF AnalysisResultValid(r)
       THEN result' = r /\ apc' = "done"
       ELSE result' = result /\ apc' = "raised"
    /\ UNCHANGED attempt

\* a mutant of NextAttempt: the counter does not advance
NextAttemptSame ==
    /\ attempt' = attempt
    /\ apc' = "loop"
    /\ UNCHANGED result

\* the loop goes on with the next value of `attempt`
NextAttempt ==
    /\ attempt' = attempt + 1
    /\ apc' = "loop"
    /\ UNCHANGED result

InLoop == apc = "loop" /\ attempt \in AttemptsRange(max_retries)

\* the request of this iteration is made and ends as `r`
Request(r) ==
    /\ requests' = requests + 1
    /\ response' = r
    /\ sent' = Append(sent, prompt)
    /\ UNCHANGED <<a_text, max_retries, prompt, chunkerVars, mergerVars, categorizerVars,
                   pipelineVars, schemaVars>>

\* if not text or not text.strip(): return the "Leerer Text" result
EmptyText ==
    /\ apc = "start"
    /\ (a_text = "" \/ StripText(a_text) = "")
    /\ Return(EmptyTextResult)
    /\ UNCHANGED <<a_text, max_retries, requests, sleeps, response, prompt, sent, chunkerVars, mergerVars, categorizerVars,
                   pipelineVars, schemaVars>>

\* prompt = self._build_analysis_prompt(...); the loop starts
BuildPrompt ==
    /\ apc = "start"
    /\ ~(a_text = "" \/ StripText(a_text) = "")
    /\ prompt' = BuildAnalysisPrompt(a_text)
    /\ attempt' = 0
    /\ apc' = "loop"
    /\ UNCHANGED <<a_text, max_retries, requests, sleeps, response, result, sent, chunkerVars, mergerVars, categorizerVars,
                   pipelineVars, schemaVars>>

\* except APITimeoutError
AttemptTimeout ==
    /\ InLoop
    /\ Request(Response("timeout", <<>>, EmptyMap, NoUsage))
    /\ IF MoreAttempts(attempt, max_retries)
       THEN sleeps' = Append(sleeps, TimeoutWait(attempt)) /\ NextAttempt
       ELSE sleeps' = sleeps /\ Return(TimeoutResult)

\* except RateLimitError
AttemptRateLimit ==
    /\ InLoop
    /\ Request(Response("rate_limit", <<>>, EmptyMap, NoUsage))
    /\ IF MoreAttempts(attempt, max_retries)
       THEN sleeps' = Append(sleeps, RateLimitWait(attempt)) /\ NextAttempt
       ELSE sleeps' = sleeps /\ Return(RateLimitResult)

\* except APIError
AttemptAPIError ==
    /\ InLoop
    /\ Request(Response("api_error", <<>>, EmptyMap, NoUsage))
    /\ sleeps' = sleeps
    /\ Return(APIErrorResult)

\* except Exception
AttemptException ==
    /\ InLoop
    /\ Request(Response("exception", <<>>, EmptyMap, NoUsage))
    /\ sleeps' = sleeps
    /\ Return(UnexpectedResult)

\* the request itself raises a ValueError (for instance the UnicodeEncodeError
\* of a header that cannot be encoded): `except ValueError` handles it, as it
\* handles the ValueError of _parse_llm_response
AttemptValueError ==
    /\ InLoop
    /\ Request(Response("value_error", <<>>, EmptyMap, NoUsage))
    /\ IF MoreAttempts(attempt, max_retries)
       THEN sleeps' = Append(sleeps, ParseWait(attempt)) /\ NextAttempt
       ELSE sleeps' = sleeps /\ Return(ParseErrorResult("str(ValueError)"))

\* response.choices[0].message.content is None
AttemptNone ==
    /\ InLoop
    /\ Request(Response("none", <<>>, EmptyMap, NoUsage))
    /\ sleeps' = sleeps \o MissingBodyWait(attempt)
    /\ IF MoreAttempts(attempt, max_retries)
       THEN NextAttempt
       ELSE Return(MissingBodyResult)

\* the data a body decodes to, when it decodes to an object
DataOf(body) ==
    IF CleanJsonResponse(Strip(body)) = <<OBJECT>> THEN DataObjects ELSE {EmptyMap}

\* a body arrives and _parse_llm_response returns a result
AttemptParsed ==
    /\ InLoop
    /\ \E body \in Bodies, usage \in Usages :
         \E data \in DataOf(body) :
           LET response_text == Strip(body)
               parsed        == ParseLLMResponse(response_text, data)
           IN  /\ parsed.ok
               /\ Request(Response("body", body, data, usage))
               /\ sleeps' = sleeps
               /\ result' = [parsed.result EXCEPT
                               !.prompt_tokens = IF usage.present THEN usage.prompt_tokens ELSE 0,
                               !.completion_tokens =
                                   IF usage.present THEN usage.completion_tokens ELSE 0,
                               !.total_tokens = IF usage.present THEN usage.total_tokens ELSE 0]
               /\ apc' = "done"
               /\ UNCHANGED attempt

\* a body arrives and _parse_llm_response raises ValueError
AttemptParseError ==
    /\ InLoop
    /\ \E body \in Bodies, usage \in Usages :
         \E data \in DataOf(body) :
           LET response_text == Strip(body)
               parsed        == ParseLLMResponse(response_text, data)
           IN  /\ ~parsed.ok
               /\ Request(Response("body", body, data, usage))
               /\ IF MoreAttempts(attempt, max_retries)
                  THEN sleeps' = Append(sleeps, ParseWait(attempt)) /\ NextAttempt
                  ELSE sleeps' = sleeps /\ Return(ParseErrorResult(parsed.error))

\* the loop ends without a return
FallThrough ==
    /\ apc = "loop"
    /\ attempt \notin AttemptsRange(max_retries)
    /\ Return(FallThroughResult)
    /\ UNCHANGED <<a_text, max_retries, requests, sleeps, response, prompt, sent, chunkerVars, mergerVars, categorizerVars,
                   pipelineVars, schemaVars>>

AnalyzerNext ==
    \/ EmptyText \/ BuildPrompt
    \/ AttemptTimeout \/ AttemptRateLimit \/ AttemptAPIError \/ AttemptException
    \/ AttemptValueError
    \/ AttemptNone \/ AttemptParsed \/ AttemptParseError
    \/ FallThrough

SpecAnalyzer == AnalyzerInit /\ [][AnalyzerNext]_vars

\* the sentinel keyword pairs of the failed results
SentinelKeywords ==
    {<<"leer", "keine">>, <<"fehler", "keine-antwort">>, <<"fehler", "timeout">>,
     <<"fehler", "rate-limit">>, <<"fehler", "api">>, <<"fehler", "parse">>,
     <<"fehler", "unbekannt">>}

\* C3: one call of analyze_text issues at most max_retries requests, counted
\* over all failure classes together; with max_retries = 0 it issues none and
\* returns a failed result.
C3_AtMostMaxRetries ==
    /\ apc # "idle" => requests <= max_retries
    /\ (apc \in {"loop", "done"} /\ max_retries = 0) => requests = 0
    /\ (apc = "done" /\ max_retries = 0) => result.error # None

\* a call that used all three permitted requests on failures of three
\* different classes (unparseable body, rate limit, timeout)
C3_Witness ==
    /\ apc = "done"
    /\ max_retries = 3
    /\ requests = 3
    /\ sleeps = <<1, 10>>
    /\ result = TimeoutResult

\* C4: every returned result with its error set is structurally valid:
\* sentiment "gemischt", exactly 2 sentinel keywords, empty paraphrase and
\* sentiment_reason, empty custom_checks and custom_checks_reasons, all token
\* counters 0; building it never raises.
C4_FailedResultValid ==
    /\ apc # "raised"
    /\ (apc = "done" /\ result.error # None) =>
          /\ result.sentiment = "gemischt"
          /\ Len(result.keywords) = 2
          /\ result.keywords \in SentinelKeywords
          /\ result.paraphrase = ""
          /\ result.sentiment_reason = ""
          /\ result.custom_checks = EmptyMap
          /\ result.custom_checks_reasons = EmptyMap
          /\ result.prompt_tokens = 0
          /\ result.completion_tokens = 0
          /\ result.total_tokens = 0

\* a parse-error result returned after the last permitted attempt, built
\* although the response carried token usage
C4_Witness ==
    /\ apc = "done"
    /\ result.error # None
    /\ response.kind = "body"
    /\ response.usage.present
    /\ requests = 3

\* the latest response is a body that decodes to a JSON object whose
\* keywords entry is a list (or missing)
ObjectResponse ==
    /\ apc \in {"loop", "done", "raised"}
    /\ response.kind = "body"
    /\ CleanJsonResponse(Strip(response.body)) = <<OBJECT>>
    /\ Get(response.data, "keywords", JsonList(0)).list

\* C5: a response that decodes to a JSON object gives, at that attempt and
\* without error, a result with sentiment in {positiv, negativ, gemischt} and
\* 2..4 keywords: a sentiment outside the enum becomes "gemischt", fewer than
\* 2 keywords are padded with "unbekannt" to exactly 2, more than 4 are cut
\* to the first 4.
C5_Normalized ==
    ObjectResponse =>
        LET raw_kw   == Get(response.data, "keywords", JsonList(0)).items
            raw_sent == Get(response.data, "sentiment", "gemischt")
            n        == Len(raw_kw)
            expected == IF n < 2 THEN 2 ELSE IF n > 4 THEN 4 ELSE n
        IN  /\ apc = "done"
            /\ result.error = None
            /\ result.sentiment \in {"positiv", "negativ", "gemischt"}
            /\ result.sentiment =
                 (IF raw_sent \in {"positiv", "negativ", "gemischt"} THEN raw_sent
                  ELSE "gemischt")
            /\ Len(result.keywords) = expected
            /\ \A i \in 1..expected :
                 result.keywords[i] = (IF i <= n THEN raw_kw[i] ELSE "unbekannt")

\* a response with 10 keywords and a sentiment outside the enum, returned
\* from the first attempt with 4 keywords and sentiment "gemischt"
C5_Witness ==
    /\ ObjectResponse
    /\ apc = "done"
    /\ requests = 1
    /\ Len(Get(response.data, "keywords", JsonList(0)).items) = 10
    /\ Get(response.data, "sentiment", "gemischt") = "neutral"
    /\ Len(result.keywords) = 4
    /\ result.sentiment = "gemischt"
    /\ result.error = None

\* ---- retry policy (C17 - C20) ----
\* this step is a request whose outcome is of the given kind
RequestEnds(kind) == requests' = requests + 1 /\ response'.kind = kind

\* this step is a request that delivered a body
BodyArrives == RequestEnds("body")

\* the loop goes on: the next attempt is within range(max_retries), so the
\* only thing analyze_text can do next is the next request
GoesOnAfter(waits) ==
    /\ sleeps' = sleeps \o waits
    /\ apc' = "loop"
    /\ attempt' = attempt + 1
    /\ attempt' \in 0..(max_retries - 1)
    /\ requests' < max_retries

\* analyze_text returns, without sleeping, a failed result with the tag
GivesUp(tag) ==
    /\ sleeps' = sleeps
    /\ apc' = "done"
    /\ result'.error # None
    /\ result'.keywords = <<"fehler", tag>>

\* once analyze_text has returned, no request is made
NoRequestAfterReturn == apc = "done" => requests' = requests

\* C17: a request of 0-based attempt k that ends in a timeout is followed,
\* when k < max_retries - 1, by a sleep of exactly 2^k seconds and the next
\* attempt; when k = max_retries - 1, no further request is made and the
\* failed result tagged timeout is returned.
C17_TimeoutBackoff ==
    [][/\ RequestEnds("timeout") =>
            IF attempt < max_retries - 1
            THEN GoesOnAfter(<<2 ^ attempt>>)
            ELSE GivesUp("timeout") /\ result' = TimeoutResult
       /\ NoRequestAfterReturn]_vars

\* three timeouts in a row with max_retries = 3: sleeps of 1 and 2 seconds,
\* then the timeout result
C17_Witness ==
    /\ apc = "done"
    /\ max_retries = 3
    /\ requests = 3
    /\ sleeps = <<1, 2>>
    /\ response.kind = "timeout"
    /\ result = TimeoutResult

\* C18: a request of 0-based attempt k that is rejected by rate limiting is
\* followed, when k < max_retries - 1, by a sleep of exactly 5 * (k + 1)
\* seconds and the next attempt; when k = max_retries - 1, no further
\* request is made and the failed result tagged rate-limit is returned.
C18_RateLimitBackoff ==
    [][/\ RequestEnds("rate_limit") =>
            IF attempt < max_retries - 1
            THEN GoesOnAfter(<<5 * (attempt + 1)>>)
            ELSE GivesUp("rate-limit") /\ result' = RateLimitResult
       /\ apc = "done" => requests' = requests /\ sleeps' = sleeps]_vars

\* three rate-limit rejections in a row with max_retries = 3: sleeps of 5
\* and 10 seconds, then the rate-limit result
C18_Witness ==
    /\ apc = "done"
    /\ max_retries = 3
    /\ requests = 3
    /\ sleeps = <<5, 10>>
    /\ response.kind = "rate_limit"
    /\ result = RateLimitResult

\* the body is not empty and is not a JSON object: text that is not JSON, an
\* object followed by other text, or a JSON value that is not an object
NotAnObject(r) ==
    /\ r.kind = "body"
    /\ CleanJsonResponse(Strip(r.body)) \notin {<<>>, <<OBJECT>>}

\* every request carries the prompt built before the loop
SamePrompt ==
    requests' = requests + 1 =>
        /\ sent' = Append(sent, BuildAnalysisPrompt(a_text))
        /\ \A i \in DOMAIN sent : sent[i] = sent'[Len(sent')]

\* C19: a body of attempt k that cannot be parsed as a JSON object (malformed
\* JSON, or JSON that is not an object) is followed, when k < max_retries - 1,
\* by a sleep of exactly 1 second and a repetition of the request with the
\* identical prompt; when k = max_retries - 1, the failed result tagged parse
\* is returned.
C19_ParseRetry ==
    [][/\ (BodyArrives /\ NotAnObject(response')) =>
            IF attempt < max_retries - 1
            THEN GoesOnAfter(<<1>>)
            ELSE GivesUp("parse")
       /\ SamePrompt]_vars

\* three unparseable bodies in a row with max_retries = 3, the last one a
\* JSON array: two sleeps of 1 second, three requests with the same prompt,
\* then the parse-error result
C19_Witness ==
    /\ apc = "done"
    /\ max_retries = 3
    /\ requests = 3
    /\ sleeps = <<1, 1>>
    /\ response.kind = "body"
    /\ response.body = <<ARRAY>>
    /\ result.keywords = <<"fehler", "parse">>
    /\ Len(sent) = 3
    /\ sent[1] = sent[3]

\* a body that is present and empty: the empty string, whitespace only, or a
\* code fence wrapping nothing
EmptyBody(r) ==
    /\ r.kind = "body"
    /\ CleanJsonResponse(Strip(r.body)) = <<>>

\* the treatment of malformed JSON: a wait of 1 second before the retry, the
\* failed result tagged parse on exhaustion
ParseFailureTreatment ==
    IF attempt < max_retries - 1 THEN GoesOnAfter(<<1>>) ELSE GivesUp("parse")

\* C20 as stated: a response with an empty body is handled as a parse failure
\* in every form it can take: no content at all, empty string, whitespace
\* only, a code fence wrapping nothing.
C20_EmptyBodyIsParseFailure ==
    [][/\ RequestEnds("none") => ParseFailureTreatment
       /\ (BodyArrives /\ EmptyBody(response')) => ParseFailureTreatment]_vars

\* C20, amended: an empty string, a whitespace-only body and a code fence
\* wrapping nothing are handled as parse failures; a response with no content
\* at all (None) is retried at once, without any wait, and on exhaustion
\* gives the failed result tagged keine-antwort, not parse.
C20_EmptyBodyHandling ==
    [][/\ (BodyArrives /\ EmptyBody(response')) => ParseFailureTreatment
       /\ RequestEnds("none") =>
            IF attempt < max_retries - 1
            THEN GoesOnAfter(<<>>)
            ELSE GivesUp("keine-antwort") /\ result' = MissingBodyResult]_vars

\* with max_retries = 3: a response without content (no wait), then one
\* failed parse (1 second), then a code fence wrapping nothing, which ends
\* the call with the parse-error result
C20_Witness ==
    /\ apc = "done"
    /\ max_retries = 3
    /\ requests = 3
    /\ sleeps = <<1>>
    /\ response.kind = "body"
    /\ response.body = <<FENCE_JSON, FENCE>>
    /\ result.keywords = <<"fehler", "parse">>

\* a call that ended on a response without content after three attempts
\* without content: no sleep at all
MissingBodyExhausted ==
    /\ apc = "done"
    /\ max_retries = 3
    /\ requests = 3
    /\ sleeps = <<>>
    /\ result = MissingBodyResult

\* ---- C21 ----
\* analyze_text returns a failed result at once: no sleep, no further request
FailsAtOnce ==
    /\ sleeps' = sleeps
    /\ apc' = "done"
    /\ result'.error # None

\* the request ended in an APIError that is neither a timeout nor a rate
\* limit: the result tagged api is returned at once
ServiceErrorFailsAtOnce ==
    [][/\ RequestEnds("api_error") => FailsAtOnce /\ result' = APIErrorResult
       /\ RequestEnds("exception") => FailsAtOnce /\ result' = UnexpectedResult
       /\ apc = "done" => sent' = sent]_vars

\* C21: a request that ends in a service error that is neither a timeout nor
\* a rate limit, or in any other unexpected exception, makes analyze_text
\* return a failed result at once: no sleep and no further request follow,
\* whatever the attempt number.
C21_NoRetryOnOtherErrors ==
    [][/\ RequestEnds("api_error") => FailsAtOnce
       /\ RequestEnds("exception") => FailsAtOnce
       /\ RequestEnds("value_error") => FailsAtOnce
       /\ apc = "done" => requests' = requests /\ sent' = sent]_vars

\* the first request raised a ValueError and a second request was made after
\* a sleep of one second
ValueErrorRetried ==
    /\ apc = "loop"
    /\ response.kind = "value_error"
    /\ requests = 1
    /\ sleeps = <<1>>

\* ---- C22 ----
\* C22: for an empty or whitespace-only text analyze_text returns a failed
\* result with sentinel keywords without issuing any request and without
\* sleeping, for every value of max_retries.
C22_EmptyTextShortCircuit ==
    (apc # "idle" /\ a_text \in {"", "   "}) =>
        /\ apc \in {"start", "done"}
        /\ requests = 0
        /\ sent = <<>>
        /\ sleeps = <<>>
        /\ apc = "done" =>
              /\ result.error = "Leerer Text"
              /\ result.keywords = <<"leer", "keine">>
              /\ AnalysisResultValid(result)

\* a whitespace-only text with three permitted attempts: the call has
\* returned the failed result
C22_Witness ==
    /\ apc = "done"
    /\ a_text = "   "
    /\ max_retries = MaxRetries
    /\ result = EmptyTextResult
    /\ requests = 0

\* ---- sleeps and requests (C26) ----
\* this step calls time.sleep
Sleeps == Len(sleeps') > Len(sleeps)

\* this step is a request whose body _parse_llm_response accepts
ParsesSuccessfully ==
    /\ BodyArrives
    /\ ParseLLMResponse(Strip(response'.body), response'.data).ok

\* the most sleeps a call with m permitted attempts performs
MostSleeps(m) == IF m >= 1 THEN m - 1 ELSE 0

\* C26: within one analyze_text call every backoff sleep is followed by
\* another request: the step that sleeps is not the last permitted attempt
\* and leaves the loop at an attempt within range(max_retries), where the
\* only step analyze_text takes is a request; no sleep follows a response
\* that parsed successfully; a call performs at most max_retries - 1 sleeps
\* (none when max_retries = 0); and a successful parse returns, so it is the
\* last request of the call.
C26_SleepThenRequest ==
    [][/\ Sleeps =>
            /\ attempt < max_retries - 1
            /\ apc' = "loop"
            /\ attempt' \in 0..(max_retries - 1)
            /\ requests' < max_retries
            /\ ~ParsesSuccessfully
       /\ InLoop => requests' = requests + 1
       /\ Len(sleeps') <= MostSleeps(max_retries)
       /\ ParsesSuccessfully =>
            /\ sleeps' = sleeps
            /\ apc' = "done"
            /\ result'.error = None
       /\ NoRequestAfterReturn]_vars

\* two failed attempts, each followed by a sleep, then a third request whose
\* body parsed: two sleeps with max_retries = 3, and the parse is the last
\* request
C26_Witness ==
    /\ apc = "done"
    /\ max_retries = 3
    /\ requests = 3
    /\ Len(sleeps) = 2
    /\ response.kind = "body"
    /\ result.error = None

\* ---- one attempt counter for all failure classes (C27) ----
\* the failure classes that are retried, and the tag of each
RetriedKinds == {"timeout", "rate_limit", "none", "value_error", "body"}

TagOf(kind) ==
    CASE kind = "timeout"    -> "timeout"
      [] kind = "rate_limit" -> "rate-limit"
      [] kind = "none"       -> "keine-antwort"
      [] OTHER               -> "parse"

\* the sleep after a failure of the class at attempt k
WaitOf(kind, k) ==
    CASE kind = "timeout"    -> <<2 ^ k>>
      [] kind = "rate_limit" -> <<5 * (k + 1)>>
      [] kind = "none"       -> <<>>
      [] OTHER               -> <<1>>

\* this step is a request that failed in one of the retried classes
RetriedFailure ==
    /\ requests' = requests + 1
    /\ response'.kind \in RetriedKinds
    /\ ~ParsesSuccessfully

\* C27: the attempt counter of analyze_text is shared by all failure classes:
\* at every request it equals the number of requests the call made before,
\* whatever their classes; the backoff after the failure of 0-based attempt k
\* is the wait of the failing class computed from that k; and on exhaustion
\* the failed result carries the tag of the class that failed on the last
\* attempt only.
C27_SharedAttemptCounter ==
    [][/\ InLoop => attempt = requests
       /\ RetriedFailure =>
            IF requests < max_retries - 1
            THEN GoesOnAfter(WaitOf(response'.kind, requests))
            ELSE GivesUp(TagOf(response'.kind))]_vars

\* a rate-limit rejection at attempt 0 (5 seconds), a first timeout at
\* attempt 1 (2 seconds, not 1), an unparseable body at attempt 2: the result
\* is tagged parse
C27_Witness ==
    /\ apc = "done"
    /\ max_retries = 3
    /\ requests = 3
    /\ sleeps = <<5, 2>>
    /\ response.kind = "body"
    /\ result.keywords = <<"fehler", "parse">>

\* ========================================================================
\* ResultMerger
\* ========================================================================
\* --- bounds of the explored inputs ---
\* largest number of chunk results merged
MaxChunks == 3

\* largest total number of keywords over all chunk results (keyword inputs)
MaxPooled == 6

\* A str field of a MergedResult is the sequence of the pieces it was joined
\* from, separators included; the empty str is <<>>.
EmptyStr == <<>>

\* a JSON number in place of a string (truthy, not a str)
JsonNumber == "<number 5>"

IsStr(v) == v # JsonNumber

\* Python truthiness of a str or number
Truthy(v) == v # ""

Range(q) == {q[i] : i \in DOMAIN q}

\* sep.join(parts) as a sequence of pieces
RECURSIVE JoinPieces(_, _)
JoinPieces(sep, parts) ==
    IF parts = <<>> THEN <<>>
    ELSE IF Len(parts) = 1 THEN <<parts[1]>>
    ELSE <<parts[1], sep>> \o JoinPieces(sep, Tail(parts))

\* list(dict.fromkeys(q)): duplicates dropped, first-seen order kept
RECURSIVE Dedupe(_)
Dedupe(q) ==
    IF q = <<>> THEN <<>>
    ELSE LET d == Dedupe(SubSeq(q, 1, Len(q) - 1))
             x == q[Len(q)]
         IN  IF x \in Range(d) THEN d ELSE Append(d, x)

RECURSIVE SumSeq(_)
SumSeq(q) == IF q = <<>> THEN 0 ELSE Head(q) + SumSeq(Tail(q))

Ok(v) == [ok |-> TRUE, v |-> v]

Failed == [ok |-> FALSE, v |-> <<>>]

\* _merge_paraphrases
MergeParaphrases(results) ==
    LET all   == [i \in 1..Len(results) |-> results[i].paraphrase]
        parts == SelectSeq(all, Truthy)
    IN  IF \E i \in DOMAIN parts : ~IsStr(parts[i])
        THEN Failed   \* str.join raises TypeError
        ELSE Ok(JoinPieces(" | ", parts))

\* _merge_sentiment_reasons
MergeSentimentReasons(results) ==
    LET all   == [i \in 1..Len(results) |-> results[i].sentiment_reason]
        parts == SelectSeq(all, Truthy)
    IN  IF \E i \in DOMAIN parts : ~IsStr(parts[i])
        THEN Failed
        ELSE Ok(JoinPieces(" | ", parts))

SENTIMENT_MAP == [s \in {"positiv", "gemischt", "negativ"} |->
                    CASE s = "positiv" -> 1 [] s = "gemischt" -> 0 [] s = "negativ" -> 0 - 1]

\* _merge_sentiments with inclusive thresholds (>= 0.5, <= -0.5)
MergeSentimentsInclusive(results) ==
    IF \E i \in DOMAIN results : results[i].sentiment \notin DOMAIN SENTIMENT_MAP
    THEN Failed
    ELSE LET numeric == [i \in 1..Len(results) |-> SENTIMENT_MAP[results[i].sentiment]]
             total   == SumSeq(numeric)
             n       == Len(numeric)
         IN  IF 2 * total >= n THEN Ok(1)
             ELSE IF 2 * total <= 0 - n THEN Ok(0 - 1)
             ELSE Ok(0)

\* _merge_sentiments.  mean = total / n is compared with 0.5 and -0.5; for
\* integers total and n > 0 that is 2 * total > n and 2 * total < -n.
MergeSentiments(results) ==
    IF \E i \in DOMAIN results : results[i].sentiment \notin DOMAIN SENTIMENT_MAP
    THEN Failed   \* KeyError
    ELSE LET numeric == [i \in 1..Len(results) |-> SENTIMENT_MAP[results[i].sentiment]]
             total   == SumSeq(numeric)
             n       == Len(numeric)
         IN  IF 2 * total > n THEN Ok(1)
             ELSE IF 2 * total < 0 - n THEN Ok(0 - 1)
             ELSE Ok(0)

\* all_keywords: the keyword lists of all results, concatenated
RECURSIVE AllKeywords(_)
AllKeywords(results) ==
    IF results = <<>> THEN <<>> ELSE Head(results).keywords \o AllKeywords(Tail(results))

Count(x, all) == Cardinality({i \in DOMAIN all : all[i] = x})

RemoveAt(q, i) == SubSeq(q, 1, i - 1) \o SubSeq(q, i + 1, Len(q))

\* the n entries of `items` with the largest counts, largest first, equal
\* counts in the order of `items` (heapq.nlargest / sorted(reverse=True))
RECURSIVE TakeLargest(_, _, _)
TakeLargest(items, all, n) ==
    IF n = 0 \/ items = <<>> THEN <<>>
    ELSE LET best == {i \in DOMAIN items :
                        \A j \in DOMAIN items : Count(items[i], all) >= Count(items[j], all)}
             i    == SetMin(best)
         IN  <<items[i]>> \o TakeLargest(RemoveAt(items, i), all, n - 1)

\* as TakeLargest, equal counts in reverse order of `items`
RECURSIVE TakeLargestLastFirst(_, _, _)
TakeLargestLastFirst(items, all, n) ==
    IF n = 0 \/ items = <<>> THEN <<>>
    ELSE LET best == {i \in DOMAIN items :
                        \A j \in DOMAIN items : Count(items[i], all) >= Count(items[j], all)}
             i    == SetMax(best)
         IN  <<items[i]>> \o TakeLargestLastFirst(RemoveAt(items, i), all, n - 1)

\* Counter(all).most_common(n) that breaks ties by last-seen order
MostCommonLastSeen(all, n) == TakeLargestLastFirst(Dedupe(all), all, n)

\* Counter(all).most_common(n), keywords only
MostCommon(all, n) == TakeLargest(Dedupe(all), all, n)

\* _merge_keywords
MergeKeywords(results) ==
    LET all_keywords == AllKeywords(results)
        most_common  == MostCommon(all_keywords, 4)
    IN  IF Len(most_common) < 2
        THEN Ok(most_common \o [i \in 1..(2 - Len(most_common)) |-> "unbekannt"])
        ELSE Ok(most_common)

\* values = [r.custom_checks.get(q) for r in results if q in r.custom_checks]
RECURSIVE CheckValuesOf(_, _)
CheckValuesOf(results, question) ==
    IF results = <<>> THEN <<>>
    ELSE LET r == Head(results)
         IN  (IF question \in DOMAIN r.custom_checks
              THEN <<r.custom_checks[question]>> ELSE <<>>)
             \o CheckValuesOf(Tail(results), question)

\* a list item as collected by the multi_categorical branch: the items of a
\* list, or the value itself (a str, or a bool standing as itself)
RECURSIVE AllCategories(_)
AllCategories(values) ==
    IF values = <<>> THEN <<>>
    ELSE LET v == Head(values)
         IN  (IF v.t = "null" THEN <<>>
              ELSE IF v.t = "list" THEN v.l
              ELSE IF v.t = "bool" THEN <<IF v.b THEN "<True>" ELSE "<False>">>
              ELSE IF v.s # "" THEN <<v.s>>
              ELSE <<>>)
             \o AllCategories(Tail(values))

NotNullNotEmpty(v) == v.t # "null" /\ ~(v.t = "str" /\ v.s = "")

\* the boolean branch as a logical AND over the non-null values
MergeBooleanAll(values) ==
    JBool(\A i \in DOMAIN values : values[i].t # "null" =>
                                   (values[i].t = "bool" /\ values[i].b))

\* any(v is True for v in values if v is not None)
MergeBoolean(values) ==
    JBool(\E i \in DOMAIN values : values[i].t = "bool" /\ values[i].b)

\* the body of the loop of _merge_custom_checks for one attribute
MergeOneCheck(results, attr) ==
    LET values == CheckValuesOf(results, attr.question)
    IN  IF values = <<>> THEN Ok(JNull)
        ELSE IF attr.answer_type = "boolean" THEN Ok(MergeBoolean(values))
        ELSE IF attr.answer_type = "multi_categorical"
        THEN LET all_categories == AllCategories(values)
             IN  IF all_categories # <<>> THEN Ok(JList(Dedupe(all_categories)))
                 ELSE Ok(JNull)
        ELSE IF attr.answer_type = "categorical"
        THEN LET non_null_values == SelectSeq(values, NotNullNotEmpty)
             IN  IF non_null_values = <<>> THEN Ok(JNull)
                 \* dict.fromkeys raises on a list, str.join on a bool
                 ELSE IF \E i \in DOMAIN non_null_values : non_null_values[i].t # "str"
                 THEN Failed
                 ELSE Ok(Joined(JoinPieces(", ",
                         Dedupe([i \in DOMAIN non_null_values |-> non_null_values[i].s]))))
        ELSE Failed   \* no branch assigns: not reachable for a valid CheckAttribute

\* _merge_custom_checks: a map question -> merged value
RECURSIVE MergeCustomChecks(_, _)
MergeCustomChecks(results, attrs) ==
    IF attrs = <<>> THEN Ok(EmptyMap)
    ELSE LET front == MergeCustomChecks(results, SubSeq(attrs, 1, Len(attrs) - 1))
             attr  == attrs[Len(attrs)]
             one   == MergeOneCheck(results, attr)
         IN  IF ~front.ok \/ ~one.ok THEN Failed
             ELSE Ok([q \in {attr.question} |-> one.v] @@ front.v)

\* reasons = [r.custom_checks_reasons.get(q, "") for r in results if q in ... and ...]
RECURSIVE ReasonsOf(_, _)
ReasonsOf(results, question) ==
    IF results = <<>> THEN <<>>
    ELSE LET r == Head(results)
         IN  (IF question \in DOMAIN r.custom_checks_reasons
                 /\ Truthy(r.custom_checks_reasons[question])
              THEN <<r.custom_checks_reasons[question]>> ELSE <<>>)
             \o ReasonsOf(Tail(results), question)

\* _merge_custom_checks_reasons: a map question -> joined reasons
RECURSIVE MergeCustomChecksReasons(_, _)
MergeCustomChecksReasons(results, attrs) ==
    IF attrs = <<>> THEN Ok(EmptyMap)
    ELSE LET front   == MergeCustomChecksReasons(results, SubSeq(attrs, 1, Len(attrs) - 1))
             attr    == attrs[Len(attrs)]
             reasons == ReasonsOf(results, attr.question)
         IN  IF ~front.ok \/ (\E i \in DOMAIN reasons : ~IsStr(reasons[i])) THEN Failed
             ELSE Ok([q \in {attr.question} |-> JoinPieces(" | ", reasons)] @@ front.v)

\* MergedResult(...)
MergedResult(filename, paraphrase, sentiment, sentiment_reason, keywords, custom_checks, custom_checks_reasons, keyword_category, chunk_count, error) ==
    [filename |-> filename, paraphrase |-> paraphrase, sentiment |-> sentiment,
     sentiment_reason |-> sentiment_reason, keywords |-> keywords,
     custom_checks |-> custom_checks, custom_checks_reasons |-> custom_checks_reasons,
     keyword_category |-> keyword_category, chunk_count |-> chunk_count, error |-> error]

\* MergedResult.__post_init__ raises ValueError unless this holds
MergedResultValid(m) ==
    /\ m.sentiment \in {0 - 1, 0, 1}
    /\ m.chunk_count >= 1

Filename == "dokument.pdf"

\* the record of the `if not chunk_results` branch
EmptyMergedResult ==
    MergedResult(Filename, EmptyStr, 0, EmptyStr, <<>>, EmptyMap, EmptyMap, "", 0,
                 "Keine Chunk-Ergebnisse verfuegbar")

\* the record of the except branch with the chunk_count of the empty branch
ErrorMergedResultZero(results) ==
    MergedResult(Filename, EmptyStr, 0, EmptyStr, <<>>, EmptyMap, EmptyMap, "", 0,
                 "Fehler beim Zusammenfuehren von Ergebnissen")

\* the record of the except branch
ErrorMergedResult(results) ==
    MergedResult(Filename, EmptyStr, 0, EmptyStr, <<>>, EmptyMap, EmptyMap, "",
                 Len(results), "Fehler beim Zusammenfuehren von Ergebnissen")

\* the try block of merge_results: the merged record, or the failure of a step
TryMerge(results, attrs) ==
    LET paraphrase == MergeParaphrases(results)
        sentiment  == MergeSentiments(results)
        reason     == MergeSentimentReasons(results)
        keywords   == MergeKeywords(results)
        checks     == MergeCustomChecks(results, attrs)
        reasons    == MergeCustomChecksReasons(results, attrs)
    IN  IF paraphrase.ok /\ sentiment.ok /\ reason.ok /\ keywords.ok /\ checks.ok /\ reasons.ok
        THEN LET m == MergedResult(Filename, paraphrase.v, sentiment.v, reason.v, keywords.v,
                                   checks.v, reasons.v, "", Len(results), None)
             IN  IF MergedResultValid(m) THEN Ok(m) ELSE Failed
        ELSE Failed

\* ---- the explored inputs of merge_results ----
BaseResult ==
    AnalysisResult("", "gemischt", "", <<"k1", "k2">>, EmptyMap, EmptyMap, None)

BooleanAttribute == [question |-> "q1", answer_type |-> "boolean"]

CategoricalAttribute == [question |-> "q1", answer_type |-> "categorical"]

MultiAttribute == [question |-> "q1", answer_type |-> "multi_categorical"]

Schemas == {<<>>, <<BooleanAttribute>>, <<CategoricalAttribute>>, <<MultiAttribute>>}

\* merge_results is called with these chunk_results and check_attributes
Input(results, attrs) ==
    /\ chunk_results = results
    /\ check_attributes = attrs

\* results that differ in their sentiment only
SentimentInputs ==
    \E n \in 0..MaxChunks : \E f \in [1..n -> ValidSentiments] :
        Input([i \in 1..n |-> [BaseResult EXCEPT !.sentiment = f[i]]],
              <<BooleanAttribute>>)

\* results that differ in paraphrase and sentiment_reason only; a paraphrase
\* may be a JSON number
TextInputs ==
    \E n \in 1..MaxChunks :
        \E f \in [1..n -> {"", "Teil A", "Teil B", JsonNumber} \X {"", "Grund"}] :
            Input([i \in 1..n |-> [BaseResult EXCEPT !.paraphrase = f[i][1],
                                                     !.sentiment_reason = f[i][2]]],
                  <<BooleanAttribute>>)

\* what one result holds for the question q1: nothing, or one of these values
CheckValues ==
    {JNull, JBool(TRUE), JBool(FALSE), JStr("x"), JStr("y"), JStr(""),
     JList(<<"x">>), JList(<<"y", "x">>)}

Absent == [t |-> "absent", b |-> FALSE, s |-> "", l |-> <<>>]

WithCheck(r, v) ==
    IF v = Absent THEN r
    ELSE [r EXCEPT !.custom_checks = [q \in {"q1"} |-> v],
                   !.custom_checks_reasons =
                       [q \in {"q1"} |-> IF v.t \in {"null", "list"} THEN "" ELSE "weil"]]

\* results that differ in their custom_checks only, under every schema
CheckInputs ==
    \E n \in 1..MaxChunks :
        \E f \in [1..n -> CheckValues \cup {Absent}], attrs \in Schemas :
            Input([i \in 1..n |-> WithCheck(BaseResult, f[i])], attrs)

\* keyword sequences of length n in which every keyword is either one that
\* occurred before or the next unused name (names are interchangeable)
RECURSIVE KeywordSeqs(_)
KeywordSeqs(n) ==
    IF n = 0 THEN {<<>>}
    ELSE UNION {{Append(q, KeywordNames[k]) :
                    k \in 1..(Cardinality(Range(q)) + 1)} : q \in KeywordSeqs(n - 1)}

\* the ways to cut n keywords into lists of 2..4 (an AnalysisResult holds 2..4)
RECURSIVE Compositions(_)
Compositions(n) ==
    IF n = 0 THEN {<<>>}
    ELSE UNION {{<<p>> \o c : c \in Compositions(n - p)} : p \in {q \in 2..4 : q <= n}}

RECURSIVE CutKeywords(_, _)
CutKeywords(q, comp) ==
    IF comp = <<>> THEN <<>>
    ELSE <<[BaseResult EXCEPT !.keywords = SubSeq(q, 1, Head(comp))]>>
         \o CutKeywords(SubSeq(q, Head(comp) + 1, Len(q)), Tail(comp))

\* results that differ in their keywords only
KeywordInputs ==
    \E n \in 2..MaxPooled :
        \E q \in KeywordSeqs(n), c \in Compositions(n) :
            Input(CutKeywords(q, c), <<BooleanAttribute>>)

MergerInputs == SentimentInputs \/ TextInputs \/ CheckInputs \/ KeywordInputs

MergerInit ==
    /\ MergerInputs
    /\ merged = NoResult
    /\ mpc = "start"
    /\ ChunkerIdle
    /\ AnalyzerIdle
    /\ CategorizerIdle
    /\ PipelineIdle
    /\ SchemaIdle

\* `return MergedResult(...)`: the constructor validates and may raise
ReturnMerged(m) ==
    /\ IF MergedResultValid(m)
       THEN merged' = m /\ mpc' = "done"
       ELSE merged' = merged /\ mpc' = "raised"
    /\ UNCHANGED <<chunk_results, check_attributes, chunkerVars, analyzerVars, categorizerVars,
                   pipelineVars, schemaVars>>

\* if not chunk_results: return MergedResult(..., chunk_count=0, error=...)
MergeEmpty ==
    /\ mpc = "start"
    /\ chunk_results = <<>>
    /\ ReturnMerged(EmptyMergedResult)

\* the try block runs to its return
MergeSuccess ==
    /\ mpc = "start"
    /\ chunk_results # <<>>
    /\ TryMerge(chunk_results, check_attributes).ok
    /\ merged' = TryMerge(chunk_results, check_attributes).v
    /\ mpc' = "done"
    /\ UNCHANGED <<chunk_results, check_attributes, chunkerVars, analyzerVars, categorizerVars,
                   pipelineVars, schemaVars>>

\* a step of the try block raises: the except branch returns the error record
MergeFailure ==
    /\ mpc = "start"
    /\ chunk_results # <<>>
    /\ ~TryMerge(chunk_results, check_attributes).ok
    /\ ReturnMerged(ErrorMergedResult(chunk_results))

MergerNext == MergeEmpty \/ MergeSuccess \/ MergeFailure

SpecMerger == MergerInit /\ [][MergerNext]_vars

\* the payload of a MergedResult is the default one
DefaultPayload(m) ==
    /\ m.paraphrase = EmptyStr
    /\ m.sentiment = 0
    /\ m.sentiment_reason = EmptyStr
    /\ m.keywords = <<>>
    /\ m.custom_checks = EmptyMap
    /\ m.custom_checks_reasons = EmptyMap

\* C6: merge_results with an empty result list returns, without raising, a
\* MergedResult with error set and the default payload.
C6_EmptyReturns ==
    (mpc \in {"done", "raised"} /\ chunk_results = <<>>) =>
        /\ mpc = "done"
        /\ merged.error # None
        /\ DefaultPayload(merged)

\* a step of the try block of merge_results fails on the given input
AnyStepFails ==
    \/ ~MergeParaphrases(chunk_results).ok
    \/ ~MergeSentiments(chunk_results).ok
    \/ ~MergeSentimentReasons(chunk_results).ok
    \/ ~MergeKeywords(chunk_results).ok
    \/ ~MergeCustomChecks(chunk_results, check_attributes).ok
    \/ ~MergeCustomChecksReasons(chunk_results, check_attributes).ok

\* C7: for one or more results merge_results returns a MergedResult and
\* raises nothing; if a reduction step fails the record has error set, the
\* default payload and chunk_count = number of inputs; otherwise error is
\* unset.
C7_NeverRaises ==
    (mpc \in {"done", "raised"} /\ chunk_results # <<>>) =>
        /\ mpc = "done"
        /\ merged.chunk_count = Len(chunk_results)
        /\ AnyStepFails => (merged.error # None /\ DefaultPayload(merged))
        /\ ~AnyStepFails => merged.error = None

\* three results merged under a categorical attribute, one of them holding a
\* list for it: the reduction of custom_checks fails and the error record is
\* returned
C7_Witness ==
    /\ mpc = "done"
    /\ Len(chunk_results) = 3
    /\ check_attributes = <<CategoricalAttribute>>
    /\ \E i \in 1..3 : /\ "q1" \in DOMAIN chunk_results[i].custom_checks
                       /\ chunk_results[i].custom_checks["q1"].t = "list"
    /\ merged.error # None
    /\ merged.chunk_count = 3

Sentiments == [i \in DOMAIN chunk_results |-> chunk_results[i].sentiment]

\* C8: with P positive and N negative results among n >= 1, the merged
\* sentiment is 1 iff (P - N)/n > 0.5, -1 iff (P - N)/n < -0.5, else 0; the
\* thresholds are exclusive.
C8_SentimentThresholds ==
    (mpc = "done" /\ chunk_results # <<>> /\ merged.error = None) =>
        LET n == Len(chunk_results)
            P == Cardinality({i \in 1..n : chunk_results[i].sentiment = "positiv"})
            N == Cardinality({i \in 1..n : chunk_results[i].sentiment = "negativ"})
        IN  /\ merged.sentiment \in {0 - 1, 0, 1}
            /\ merged.sentiment = 1 <=> 2 * (P - N) > n
            /\ merged.sentiment = 0 - 1 <=> 2 * (N - P) > n
            /\ (2 * (P - N) = n \/ 2 * (N - P) = n) => merged.sentiment = 0
            /\ Sentiments = <<"positiv", "positiv", "positiv">> => merged.sentiment = 1
            /\ Sentiments = <<"negativ", "negativ">> => merged.sentiment = 0 - 1
            /\ Sentiments = <<"positiv", "negativ">> => merged.sentiment = 0
            /\ Sentiments = <<"positiv", "positiv", "negativ">> => merged.sentiment = 0

\* a mean of exactly 0.5 merged to 0
C8_Witness ==
    /\ mpc = "done"
    /\ merged.error = None
    /\ Sentiments = <<"positiv", "gemischt">>
    /\ merged.sentiment = 0

\* the boolean attribute q1 was merged without error
BooleanMerged ==
    /\ mpc = "done"
    /\ chunk_results # <<>>
    /\ check_attributes = <<BooleanAttribute>>
    /\ merged.error = None

Carries(r) == "q1" \in DOMAIN r.custom_checks

ReportsTrue(r) ==
    /\ Carries(r)
    /\ r.custom_checks["q1"].t = "bool"
    /\ r.custom_checks["q1"].b

\* C9 as stated: the merged boolean is true iff some chunk reports true, and
\* false whenever every chunk reports false, null or nothing.
C9_BooleanOrAsStated ==
    BooleanMerged =>
        merged.custom_checks["q1"] =
            JBool(\E i \in DOMAIN chunk_results : ReportsTrue(chunk_results[i]))

\* C9 (amended): when at least one chunk carries the attribute (as any value,
\* null included) the merged boolean is true iff some chunk reports true, and
\* false otherwise; when no chunk carries the attribute the merged value is
\* null.
C9_BooleanOr ==
    BooleanMerged =>
        merged.custom_checks["q1"] =
            (IF \E i \in DOMAIN chunk_results : Carries(chunk_results[i])
             THEN JBool(\E i \in DOMAIN chunk_results : ReportsTrue(chunk_results[i]))
             ELSE JNull)

\* three chunks: one without the attribute, one with null, one with true,
\* merged to true
C9_Witness ==
    /\ BooleanMerged
    /\ Len(chunk_results) = 3
    /\ ~Carries(chunk_results[1])
    /\ Carries(chunk_results[2]) /\ chunk_results[2].custom_checks["q1"] = JNull
    /\ ReportsTrue(chunk_results[3])
    /\ merged.custom_checks["q1"] = JBool(TRUE)

\* position of the first occurrence of x in q
FirstAt(q, x) == SetMin({i \in DOMAIN q : q[i] = x})

\* x is ranked before y: more occurrences, or as many and seen first
RankedBefore(all, x, y) ==
    \/ Count(x, all) > Count(y, all)
    \/ Count(x, all) = Count(y, all) /\ FirstAt(all, x) < FirstAt(all, y)

\* C10: the merged keywords are the pooled keywords ranked by descending
\* count, ties in first-seen order, cut to the top 4, and padded with
\* "unbekannt" to length 2 when fewer than 2 distinct keywords exist; the
\* list has 2..4 entries.
C10_KeywordRanking ==
    (mpc = "done" /\ chunk_results # <<>> /\ merged.error = None) =>
        LET all  == AllKeywords(chunk_results)
            kws  == merged.keywords
            m    == Min(Cardinality(Range(all)), 4)
        IN  /\ 2 <= Len(kws) /\ Len(kws) <= 4
            /\ Len(kws) = Max(m, 2)
            /\ \A i \in 1..m : kws[i] \in Range(all)
            /\ \A i \in 1..m : \A j \in 1..m : i < j => RankedBefore(all, kws[i], kws[j])
            /\ \A x \in Range(all) :
                 (\A i \in 1..m : kws[i] # x) => RankedBefore(all, kws[m], x)
            /\ \A i \in (m + 1)..Len(kws) : kws[i] = "unbekannt"

\* five distinct keywords pooled from two chunks; the one seen last occurs
\* twice and is ranked first, the others keep first-seen order, one is cut
C10_Witness ==
    /\ mpc = "done"
    /\ merged.error = None
    /\ AllKeywords(chunk_results) = <<"k1", "k2", "k3", "k4", "k5", "k5">>
    /\ merged.keywords = <<"k5", "k1", "k2", "k3">>

\* ========================================================================
\* KeywordCategorizer
\* ========================================================================
\* A Python str is the sequence of its characters (one-character strings).
\* The characters in use, in code point order:
Alphabet ==
    <<" ", "A", "F", "a", "b", "c", "d", "f", "i", "l", "n", "o", "p", "r", "s", "t", "u">>

CharRank(c) == CHOOSE i \in DOMAIN Alphabet : Alphabet[i] = c

IsSpace(c) == c = " "

LowerChar(c) == IF c = "A" THEN "a" ELSE IF c = "F" THEN "f" ELSE c

\* str.lower()
Lower(s) == [i \in DOMAIN s |-> LowerChar(s[i])]

RECURSIVE LStripStr(_)
LStripStr(s) == IF s # <<>> /\ IsSpace(Head(s)) THEN LStripStr(Tail(s)) ELSE s

RECURSIVE RStripStr(_)
RStripStr(s) ==
    IF s # <<>> /\ IsSpace(s[Len(s)]) THEN RStripStr(SubSeq(s, 1, Len(s) - 1)) ELSE s

\* str.strip()
StripStr(s) == RStripStr(LStripStr(s))

\* `a in b` for two str
Contains(a, b) == \E i \in 0..(Len(b) - Len(a)) : SubSeq(b, i + 1, i + Len(a)) = a

\* a mutant of Words: the whole string is one word
WordsUnsplit(s) == {s}

\* set(s.split()): the maximal runs of non-whitespace characters
Words(s) ==
    {SubSeq(s, i, j) : <<i, j>> \in
        {p \in (1..Len(s)) \X (1..Len(s)) :
            /\ p[1] <= p[2]
            /\ \A k \in p[1]..p[2] : ~IsSpace(s[k])
            /\ p[1] = 1 \/ IsSpace(s[p[1] - 1])
            /\ p[2] = Len(s) \/ IsSpace(s[p[2] + 1])}}

\* a < b for two str (code point order)
RECURSIVE LexLess(_, _)
LexLess(a, b) ==
    IF b = <<>> THEN FALSE
    ELSE IF a = <<>> THEN TRUE
    ELSE IF Head(a) # Head(b) THEN CharRank(Head(a)) < CharRank(Head(b))
    ELSE LexLess(Tail(a), Tail(b))

\* sorted(list(S)) for a set of str
RECURSIVE SortStrings(_)
SortStrings(S) ==
    IF S = {} THEN <<>>
    ELSE LET m == CHOOSE x \in S : \A y \in S \ {x} : LexLess(x, y)
         IN  <<m>> \o SortStrings(S \ {m})

\* the str values used below
FinancialSupport ==
    <<"f", "i", "n", "a", "n", "c", "i", "a", "l", " ", "s", "u", "p", "p", "o", "r", "t">>

FinancialAidSupport ==
    <<"f", "i", "n", "a", "n", "c", "i", "a", "l", " ", "a", "i", "d", " ",
      "s", "u", "p", "p", "o", "r", "t">>

\* a list item that is not a str (a JSON number): it has no .lower()
NumberItem == <<"<number>">>

\* the values of a JSON object: a list, a str (iterating it yields its
\* characters), a number (it has no len())
CatList(items) == [kind |-> "list", items |-> items]

CatStr(s) == [kind |-> "str", items |-> [i \in DOMAIN s |-> <<s[i]>>]]

CatNumber == [kind |-> "number", items |-> <<>>]

\* a category mapping is an insertion-ordered dict: a sequence of entries
Entry(name, value) == [name |-> name, value |-> value]

\* the category names in use, in sorted() order
CategoryOrder == <<"Allgemein", "Finance", "K1", "K2">>

\* sorted(list(assigned_categories))
SortNames(S) == SelectSeq(CategoryOrder, LAMBDA n : n \in S)

\* a mutant of HasError: the error of a record is ignored
HasErrorNever(r) == FALSE

\* `if result.error`: None and "" are falsy
HasError(r) == r.error \notin {None, ""}

\* a record with these keywords and this error
Record(keywords, error) == [BaseResult EXCEPT !.keywords = keywords, !.error = error]

\* keyword.lower().strip()
Normalize(keyword) == StripStr(Lower(keyword))

\* collect_all_keywords
CollectAllKeywords(results) ==
    SortStrings(UNION {{Normalize(results[i].keywords[j]) : j \in DOMAIN results[i].keywords} :
                          i \in {i \in DOMAIN results : ~HasError(results[i])}})

\* the three tiers, for a normalized keyword and one category keyword
TierExact(kw, cat_keyword) == kw = Lower(cat_keyword)

TierSubstring(kw, cat_keyword) ==
    Contains(Lower(cat_keyword), kw) \/ Contains(kw, Lower(cat_keyword))

TierWords(kw, cat_keyword) == Words(kw) \cap Words(Lower(cat_keyword)) # {}

CategoryKeywords(entry) == Range(entry.value.items)

NoMatch == [tier |-> "none", category |-> ""]

Match(tier, category) == [tier |-> tier, category |-> category]

\* the loop of the exact search from the i-th category on; the list
\* comprehension calls .lower() on every item of the category it visits
RECURSIVE ScanExact(_, _, _)
ScanExact(kw, mapping, i) ==
    IF i > Len(mapping) THEN NoMatch
    ELSE IF NumberItem \in CategoryKeywords(mapping[i]) THEN Match("raise", "")
    ELSE IF \E k \in CategoryKeywords(mapping[i]) : TierExact(kw, k) THEN Match("a", mapping[i].name)
    ELSE ScanExact(kw, mapping, i + 1)

RECURSIVE ScanSubstring(_, _, _)
ScanSubstring(kw, mapping, i) ==
    IF i > Len(mapping) THEN NoMatch
    ELSE IF \E k \in CategoryKeywords(mapping[i]) : TierSubstring(kw, k)
         THEN Match("b", mapping[i].name)
    ELSE ScanSubstring(kw, mapping, i + 1)

RECURSIVE ScanWords(_, _, _)
ScanWords(kw, mapping, i) ==
    IF i > Len(mapping) THEN NoMatch
    ELSE IF \E k \in CategoryKeywords(mapping[i]) : TierWords(kw, k) THEN Match("c", mapping[i].name)
    ELSE ScanWords(kw, mapping, i + 1)

\* a mutant of MatchOf: the substring search runs before the exact search
MatchOfSubstringFirst(keyword, mapping) ==
    LET kw == Normalize(keyword)
        a  == ScanExact(kw, mapping, 1)
        b  == ScanSubstring(kw, mapping, 1)
        c  == ScanWords(kw, mapping, 1)
    IN  IF a.tier = "raise" THEN a
        ELSE IF b # NoMatch THEN b ELSE IF a # NoMatch THEN a ELSE c

\* one iteration of `for keyword in result.keywords`
MatchOf(keyword, mapping) ==
    LET kw == Normalize(keyword)
        a  == ScanExact(kw, mapping, 1)
        b  == ScanSubstring(kw, mapping, 1)
        c  == ScanWords(kw, mapping, 1)
    IN  IF a # NoMatch THEN a ELSE IF b # NoMatch THEN b ELSE c

\* assign_categories: the returned list (cats), whether it raised, and the
\* tier that matched each keyword
AssignCategories(r, mapping) ==
    IF HasError(r) \/ r.keywords = <<>>
    THEN [raised |-> FALSE, cats |-> <<"Keine">>, tiers |-> <<>>]
    ELSE LET matches  == [i \in DOMAIN r.keywords |-> MatchOf(r.keywords[i], mapping)]
             assigned == {matches[i].category :
                            i \in {i \in DOMAIN matches : matches[i].tier \in {"a", "b", "c"}}}
         IN  [raised |-> \E i \in DOMAIN matches : matches[i].tier = "raise",
              cats   |-> IF assigned = {} THEN <<"Sonstiges">> ELSE SortNames(assigned),
              tiers  |-> [i \in DOMAIN matches |-> matches[i].tier]]

\* ---- assign_categories as a function of (result, category_mapping) ----
MaxKeywords == 2

RecordKeywords ==
    {<<"a", "b">>, <<"A", "b">>, <<" ", "a", "b", " ">>, <<"a", "b", " ", "c">>,
     <<"b">>, <<"d">>, <<" ">>}

RECURSIVE SeqsUpTo(_, _)
SeqsUpTo(S, n) ==
    IF n = 0 THEN {<<>>}
    ELSE LET shorter == SeqsUpTo(S, n - 1)
         IN  shorter \cup {Append(q, x) : q \in {q \in shorter : Len(q) = n - 1}, x \in S}

Errors == {None, "Fehler"}

CategoryValues ==
    {CatList(<<>>), CatList(<<<<"a", "b">>>>), CatList(<<<<"c">>, <<"A", "b">>>>),
     CatList(<<<<"b", " ", "c">>>>), CatList(<<<<"d", "a">>>>), CatList(<<NumberItem>>),
     CatList(<<<<"b">>>>), CatList(<<<<"c", " ", "d">>>>)}

CategoryMaps ==
    {<<>>} \cup {<<Entry("K1", v)>> : v \in CategoryValues}
           \cup {<<Entry(n[1], v), Entry(n[2], w)>> :
                    n \in {<<"K1", "K2">>, <<"K2", "K1">>},
                    v \in CategoryValues, w \in CategoryValues}

FinanceMap == <<Entry("Finance", CatList(<<FinancialSupport>>))>>

AssignInit ==
    /\ \/ \E ks \in SeqsUpTo(RecordKeywords, MaxKeywords), e \in Errors, m \in CategoryMaps :
             /\ k_results = <<Record(ks, e)>>
             /\ category_mapping = m
       \/ \E e \in Errors :
             /\ k_results = <<Record(<<FinancialAidSupport>>, e)>>
             /\ category_mapping = FinanceMap
    /\ k_all_keywords = <<>>
    /\ category_assignments = <<>>
    /\ k_tiers = <<>>
    /\ k_response = NoResponse
    /\ kpc = "assign"
    /\ ChunkerIdle
    /\ AnalyzerIdle
    /\ MergerIdle
    /\ PipelineIdle
    /\ SchemaIdle

\* assign_categories returns
AssignReturns ==
    /\ kpc = "assign"
    /\ LET out == AssignCategories(k_results[1], category_mapping)
       IN  /\ ~out.raised
           /\ category_assignments' = <<out.cats>>
           /\ k_tiers' = <<out.tiers>>
    /\ kpc' = "assigned"
    /\ UNCHANGED <<k_results, k_all_keywords, category_mapping, k_response, chunkerVars,
                   analyzerVars, mergerVars, pipelineVars, schemaVars>>

\* k.lower() raises AttributeError on an item that is not a str
AssignRaises ==
    /\ kpc = "assign"
    /\ AssignCategories(k_results[1], category_mapping).raised
    /\ kpc' = "raised"
    /\ UNCHANGED <<k_results, k_all_keywords, category_mapping, category_assignments, k_tiers,
                   k_response, chunkerVars, analyzerVars, mergerVars, pipelineVars, schemaVars>>

AssignNext == AssignReturns \/ AssignRaises

SpecAssign == AssignInit /\ [][AssignNext]_vars

\* every item of every category is a str
WellTyped(mapping) ==
    \A i \in DOMAIN mapping : NumberItem \notin CategoryKeywords(mapping[i])

\* the keyword matches some keyword of some category under some tier
KeywordMatches(keyword, mapping) ==
    \E i \in DOMAIN mapping : \E k \in CategoryKeywords(mapping[i]) :
        \/ TierExact(Normalize(keyword), k)
        \/ TierSubstring(Normalize(keyword), k)
        \/ TierWords(Normalize(keyword), k)

\* C11: assign_categories returns exactly ["Keine"] for a record with an error
\* or with no keywords, whatever the category mapping is (it does not raise
\* either), and exactly ["Sonstiges"] for an error-free record with keywords
\* of which none matches a keyword of any category under any tier.
C11_Sentinels ==
    kpc \in {"assigned", "raised"} =>
        LET r == k_results[1]
        IN  /\ (r.error \notin {None, ""} \/ r.keywords = <<>>) =>
                  /\ kpc = "assigned"
                  /\ category_assignments = <<<<"Keine">>>>
            /\ ( /\ r.error \in {None, ""}
                 /\ r.keywords # <<>>
                 /\ WellTyped(category_mapping)
                 /\ \A j \in DOMAIN r.keywords :
                       ~KeywordMatches(r.keywords[j], category_mapping) ) =>
                  /\ kpc = "assigned"
                  /\ category_assignments = <<<<"Sonstiges">>>>

\* an error-free record with two keywords, a mapping of two categories that
\* hold keywords, and no match
C11_Witness ==
    /\ kpc = "assigned"
    /\ k_results[1].error = None
    /\ Len(k_results[1].keywords) = 2
    /\ Len(category_mapping) = 2
    /\ \A i \in DOMAIN category_mapping : CategoryKeywords(category_mapping[i]) # {}
    /\ category_assignments = <<<<"Sonstiges">>>>

\* the scenario of C13: the map {"Finance": ["financial support"]} and an
\* error-free record with the keyword "financial aid support"
FinanceScenario ==
    /\ kpc = "assigned"
    /\ k_results = <<Record(<<FinancialAidSupport>>, None)>>
    /\ category_mapping = FinanceMap

\* C13 as stated: the record is assigned to "Finance" and the match is
\* produced by tier (b), substring containment.
C13_FinanceBySubstring ==
    FinanceScenario =>
        /\ category_assignments = <<<<"Finance">>>>
        /\ k_tiers = <<<<"b">>>>

\* C13: the record is assigned to "Finance"; neither of the two strings
\* contains the other, so tiers (a) and (b) fail and the match is produced by
\* tier (c), a shared whitespace-delimited word.
C13_FinanceByWords ==
    FinanceScenario =>
        /\ category_assignments = <<<<"Finance">>>>
        /\ k_tiers = <<<<"c">>>>
        /\ ~TierExact(FinancialAidSupport, FinancialSupport)
        /\ ~Contains(FinancialSupport, FinancialAidSupport)
        /\ ~Contains(FinancialAidSupport, FinancialSupport)
        /\ Words(FinancialAidSupport) \cap Words(FinancialSupport) # {}

C13_Witness ==
    /\ FinanceScenario
    /\ category_assignments = <<<<"Finance">>>>

\* ---- C23 ----
\* the str items of a category
StrKeywords(entry) == CategoryKeywords(entry) \ {NumberItem}

\* the categories (positions in the mapping) that match the keyword at the
\* given tier
MatchingAt(tier, keyword, mapping) ==
    {i \in DOMAIN mapping : \E k \in StrKeywords(mapping[i]) :
        CASE tier = "a" -> Normalize(keyword) = Lower(k)
          [] tier = "b" -> \/ Contains(Lower(k), Normalize(keyword))
                           \/ Contains(Normalize(keyword), Lower(k))
          [] tier = "c" -> Words(Normalize(keyword)) \cap Words(Lower(k)) # {}}

\* the first tier, in the order a, b, c, at which some category matches
FirstTier(keyword, mapping) ==
    IF MatchingAt("a", keyword, mapping) # {} THEN "a"
    ELSE IF MatchingAt("b", keyword, mapping) # {} THEN "b"
    ELSE IF MatchingAt("c", keyword, mapping) # {} THEN "c"
    ELSE "none"

\* the categories the keywords contribute: for each keyword that matches, the
\* first category of the mapping that matches at the keyword's first tier
Contributed(keywords, mapping) ==
    {mapping[SetMin(MatchingAt(FirstTier(keywords[j], mapping), keywords[j], mapping))].name :
        j \in {j \in DOMAIN keywords : FirstTier(keywords[j], mapping) # "none"}}

\* the list is sorted and free of duplicates
SortedNames(list) ==
    \A i \in DOMAIN list, j \in DOMAIN list :
        i < j => \E a \in DOMAIN CategoryOrder, b \in DOMAIN CategoryOrder :
                    a < b /\ CategoryOrder[a] = list[i] /\ CategoryOrder[b] = list[j]

\* C23: for each keyword of an error-free record the tiers are tried in the
\* order (a) exact, (b) substring in either direction, (c) shared word, and
\* the search stops at the first tier that matches: a later tier decides
\* only if every category failed the earlier tiers, and each keyword
\* contributes at most one category.  The returned list is the sorted,
\* duplicate-free set of the contributed categories.
C23_TierOrder ==
    (kpc = "assigned" /\ ~HasError(k_results[1]) /\ k_results[1].keywords # <<>>) =>
        LET keywords == k_results[1].keywords
            cats     == category_assignments[1]
        IN  /\ DOMAIN k_tiers[1] = DOMAIN keywords
            /\ \A j \in DOMAIN keywords :
                  k_tiers[1][j] = FirstTier(keywords[j], category_mapping)
            /\ Contributed(keywords, category_mapping) # {} =>
                  /\ Range(cats) = Contributed(keywords, category_mapping)
                  /\ Len(cats) <= Len(keywords)
                  /\ SortedNames(cats)

\* the mapping lists K2 before K1; the first keyword matches K2 exactly, the
\* second matches K1 exactly although K2, earlier in the mapping, holds a
\* substring of it; the list returned is K1, K2
C23_Witness ==
    /\ kpc = "assigned"
    /\ k_results[1].error = None
    /\ k_results[1].keywords = <<<<"b">>, <<"a", "b">>>>
    /\ category_mapping = <<Entry("K2", CatList(<<<<"b">>>>)),
                            Entry("K1", CatList(<<<<"a", "b">>>>))>>
    /\ k_tiers = <<<<"a", "a">>>>
    /\ category_assignments = <<<<"K1", "K2">>>>

\* a keyword that only shares a word with a category keyword
MatchedByWordOnly ==
    /\ kpc = "assigned"
    /\ Len(category_mapping) = 2
    /\ k_tiers = <<<<"b", "c">>>>

\* ---- categorize_all ----
MaxRecords == 2

\* the outcome of the clustering request: an exception of the client
\* ("timeout", "api_error"), a response without content ("none"), a body that
\* json.loads rejects ("text": empty, prose, or JSON inside a code fence,
\* which is not stripped here), or the parsed JSON value: "scalar" (number,
\* null, true/false), "string", "array", or "object" with its entries
ClusterResponse(kind, map) == [kind |-> kind, map |-> map]

ClusterFailureKinds == {"timeout", "api_error", "none", "text", "scalar", "string", "array"}

\* a mutant of Fallback: the catch-all category holds no keyword
FallbackEmpty(keywords) == <<Entry("Allgemein", CatList(<<>>))>>

\* except Exception: return {"Allgemein": keywords}
Fallback(keywords) == <<Entry("Allgemein", CatList(keywords))>>

\* the try block of generate_categories: whether it runs to `return
\* categories`.  content.strip() raises on None, json.loads on "text",
\* len(categories) on a scalar, categories.values() on a string or an array,
\* len(kws) on a value that is a number.
ClusteringReturns(resp) ==
    /\ resp.kind = "object"
    /\ \A i \in DOMAIN resp.map : resp.map[i].value.kind # "number"

\* generate_categories
GenerateCategories(keywords, resp) ==
    IF keywords = <<>> THEN <<>>
    ELSE IF ClusteringReturns(resp) THEN resp.map
    ELSE Fallback(keywords)

\* the objects the service may answer with, for the keyword universe u
ClusterObjects(u) ==
    {<<>>,
     <<Entry("K1", CatList(u))>>,
     <<Entry("K1", CatList(<<u[1]>>))>>,
     <<Entry("K2", CatList(<<u[1]>>)), Entry("K1", CatList(Tail(u)))>>,
     <<Entry("K1", CatStr(u[1]))>>,
     <<Entry("K1", CatNumber)>>,
     <<Entry("K1", CatList(<<NumberItem>>))>>,
     <<Entry("K1", CatList(u)), Entry("K2", CatNumber)>>,
     <<Entry("K1", CatList(u)), Entry("K2", CatList(<<NumberItem>>))>>}

\* the keyword lists of the records: AnalysisResult admits 2 to 4 keywords
CatKeywordLists ==
    {<<<<"a", "b">>, <<"d">>>>, <<<<" ", "a", "b", " ">>, <<"a", "b", " ", "c">>>>,
     <<<<"A", "b">>, <<"b">>>>}

CategorizerInit ==
    /\ \E n \in 0..MaxRecords : \E f \in [1..n -> CatKeywordLists \X Errors] :
          k_results = [i \in 1..n |-> Record(f[i][1], f[i][2])]
    /\ k_all_keywords = <<>>
    /\ category_mapping = <<>>
    /\ category_assignments = <<>>
    /\ k_tiers = <<>>
    /\ k_response = NoResponse
    /\ kpc = "start"
    /\ ChunkerIdle
    /\ AnalyzerIdle
    /\ MergerIdle
    /\ PipelineIdle
    /\ SchemaIdle

\* if not all_keywords: return {}, [["Keine"] for _ in results]
CategorizeNoKeywords ==
    /\ kpc = "start"
    /\ CollectAllKeywords(k_results) = <<>>
    /\ category_assignments' = [i \in DOMAIN k_results |-> <<"Keine">>]
    /\ kpc' = "done"
    /\ UNCHANGED <<k_results, k_all_keywords, category_mapping, k_tiers, k_response,
                   chunkerVars, analyzerVars, mergerVars, pipelineVars, schemaVars>>

\* all_keywords = self.collect_all_keywords(results), not empty
CollectKeywords ==
    /\ kpc = "start"
    /\ CollectAllKeywords(k_results) # <<>>
    /\ k_all_keywords' = CollectAllKeywords(k_results)
    /\ kpc' = "generate"
    /\ UNCHANGED <<k_results, category_mapping, category_assignments, k_tiers, k_response,
                   chunkerVars, analyzerVars, mergerVars, pipelineVars, schemaVars>>

Generate(resp) ==
    /\ kpc = "generate"
    /\ k_response' = resp
    /\ category_mapping' = GenerateCategories(k_all_keywords, resp)
    /\ kpc' = "assign"
    /\ UNCHANGED <<k_results, k_all_keywords, category_assignments, k_tiers, chunkerVars,
                   analyzerVars, mergerVars, pipelineVars, schemaVars>>

\* generate_categories returns the parsed object
GenerateReturns ==
    /\ kpc = "generate"
    /\ \E m \in ClusterObjects(k_all_keywords) :
          /\ ClusteringReturns(ClusterResponse("object", m))
          /\ Generate(ClusterResponse("object", m))

\* the try block raises: generate_categories returns the fallback map
GenerateFallsBack ==
    /\ kpc = "generate"
    /\ \/ \E kind \in ClusterFailureKinds : Generate(ClusterResponse(kind, <<>>))
       \/ \E m \in ClusterObjects(k_all_keywords) :
             /\ ~ClusteringReturns(ClusterResponse("object", m))
             /\ Generate(ClusterResponse("object", m))

\* one iteration of `for result in results` that returns from assign_categories
AssignRecord ==
    /\ kpc = "assign"
    /\ Len(category_assignments) < Len(k_results)
    /\ LET out == AssignCategories(k_results[Len(category_assignments) + 1], category_mapping)
       IN  /\ ~out.raised
           /\ category_assignments' = Append(category_assignments, out.cats)
           /\ k_tiers' = Append(k_tiers, out.tiers)
    /\ UNCHANGED <<k_results, k_all_keywords, category_mapping, k_response, kpc, chunkerVars,
                   analyzerVars, mergerVars, pipelineVars, schemaVars>>

\* assign_categories raises; categorize_all has no handler
AssignRecordRaises ==
    /\ kpc = "assign"
    /\ Len(category_assignments) < Len(k_results)
    /\ AssignCategories(k_results[Len(category_assignments) + 1], category_mapping).raised
    /\ kpc' = "raised"
    /\ UNCHANGED <<k_results, k_all_keywords, category_mapping, category_assignments, k_tiers,
                   k_response, chunkerVars, analyzerVars, mergerVars, pipelineVars, schemaVars>>

\* return category_mapping, category_assignments
CategorizeReturns ==
    /\ kpc = "assign"
    /\ Len(category_assignments) = Len(k_results)
    /\ kpc' = "done"
    /\ UNCHANGED <<k_results, k_all_keywords, category_mapping, category_assignments, k_tiers,
                   k_response, chunkerVars, analyzerVars, mergerVars, pipelineVars, schemaVars>>

CategorizerNext ==
    \/ CategorizeNoKeywords
    \/ CollectKeywords
    \/ GenerateReturns
    \/ GenerateFallsBack
    \/ AssignRecord
    \/ AssignRecordRaises
    \/ CategorizeReturns

SpecCategorizer == CategorizerInit /\ [][CategorizerNext]_vars

\* the clustering call failed in the sense of C12: an exception, a missing or
\* unparseable body, or a body that is not a map of lists
ClusteringFailed(resp) ==
    \/ resp.kind \in ClusterFailureKinds
    \/ resp.kind = "object" /\ \E i \in DOMAIN resp.map : resp.map[i].value.kind # "list"

\* C12 as stated: when the clustering call fails in any way, the map is the
\* single category "Allgemein" holding the complete keyword universe, and
\* categorize_all does not raise and returns an assignment for every record.
C12_ClusteringFailureFallsBack ==
    (kpc \in {"assign", "done", "raised"} /\ ClusteringFailed(k_response)) =>
        /\ category_mapping = <<Entry("Allgemein", CatList(k_all_keywords))>>
        /\ kpc # "raised"
        /\ kpc = "done" => Len(category_assignments) = Len(k_results)

\* what assign_categories returns for the i-th record under the final map
AssignmentOf(i) == AssignCategories(k_results[i], category_mapping).cats

\* C14 as stated: categorize_all returns, for every input and every outcome of
\* the clustering call, a list as long as results whose i-th entry is the
\* assignment of results[i]; with an empty keyword universe the map is empty
\* and every entry is ["Keine"].
C14_AlignedAssignments ==
    /\ kpc # "raised"
    /\ kpc = "done" =>
          /\ Len(category_assignments) = Len(k_results)
          /\ \A i \in DOMAIN k_results : category_assignments[i] = AssignmentOf(i)
          /\ CollectAllKeywords(k_results) = <<>> =>
                /\ category_mapping = <<>>
                /\ \A i \in DOMAIN k_results : category_assignments[i] = <<"Keine">>

\* categorize_all ran with the fallback map of generate_categories
RanWithFallback ==
    /\ kpc \in {"assign", "done", "raised"}
    /\ k_response # NoResponse
    /\ ~ClusteringReturns(k_response)

\* C28: when categorize_all runs with the catch-all fallback map (clustering
\* failed), every record without error is assigned exactly the one-element
\* list holding the catch-all category, never the "other" sentinel: each of
\* its keywords, lower-cased and stripped, is a member of the collected
\* universe and matches at tier (a); assign_categories does not raise.
C28_FallbackAssignsCatchAll ==
    RanWithFallback =>
        /\ category_mapping = Fallback(k_all_keywords)
        /\ kpc # "raised"
        /\ \A i \in DOMAIN category_assignments :
              ~HasError(k_results[i]) =>
                  /\ category_assignments[i] = <<"Allgemein">>
                  /\ \A j \in DOMAIN k_results[i].keywords :
                        /\ Normalize(k_results[i].keywords[j]) \in Range(k_all_keywords)
                        /\ k_tiers[i][j] = "a"

\* the clustering request timed out; both records are free of error, one
\* with keywords in upper case and one with blanks around them, and both were
\* assigned the catch-all category
C28_Witness ==
    /\ kpc = "done"
    /\ k_response.kind = "timeout"
    /\ Len(k_results) = 2
    /\ ~HasError(k_results[1]) /\ ~HasError(k_results[2])
    /\ k_results[1].keywords = <<<<"A", "b">>, <<"b">>>>
    /\ k_results[2].keywords = <<<<" ", "a", "b", " ">>, <<"a", "b", " ", "c">>>>
    /\ category_assignments = <<<<"Allgemein">>, <<"Allgemein">>>>

\* ========================================================================
\* Batch processing: process_pdf_mode (pdf_workflow.py) and the row loop of
\* main (main.py)
\* ========================================================================
MaxDocs == 2

MaxRows == 2

pdfLocals == <<p_text, p_chunks, p_next, p_results, p_chunk_results, p_merged>>

excelVars == <<sheet_infos, s_idx, r_idx, sheet_results, all_results>>

componentVars == <<chunkerVars, analyzerVars, mergerVars, categorizerVars, schemaVars>>

\* chunk_text as a function: the while loop from current_position on.  ok is
\* FALSE when Chunk(...) raises or the loop makes no progress.
RECURSIVE ChunkLoop(_, _, _, _)
ChunkLoop(t, position, id, acc) ==
    IF position >= t.len THEN Ok(acc)
    ELSE IF position + CHUNK_SIZE >= t.len
         THEN LET c == NewChunk(id, t, position, t.len)
              IN  IF ChunkValid(c) THEN Ok(Append(acc, c)) ELSE Failed
    ELSE LET split_point == FindSplitPoint(t, position + CHUNK_SIZE)
             c           == NewChunk(id, t, position, split_point)
         IN  IF ChunkValid(c) /\ split_point > position
             THEN ChunkLoop(t, split_point, id + 1, Append(acc, c))
             ELSE Failed

ChunkText(t) ==
    IF t.len <= CHUNK_SIZE
    THEN LET c == NewChunk(0, t, 0, t.len)
         IN  IF ChunkValid(c) THEN Ok(<<c>>) ELSE Failed
    ELSE ChunkLoop(t, 0, 0, <<>>)

\* `not text.strip()` for a text in the chunker's representation
Blank(t) == Cardinality(t.ws) = t.len

\* the texts extract_text returns in the explored batches (never blank: a
\* blank text raises PDFExtractionError)
DocTexts ==
    {MkText(1, {}), MkText(CHUNK_SIZE + 1, {}), MkText(65000, {}),
     MkText(65000, {[pos |-> CHUNK_SIZE - 500, kind |-> "sb"],
                    [pos |-> 2 * CHUNK_SIZE + 999, kind |-> "ws"]})}

DocumentNames == <<"d1.pdf", "d2.pdf", "d3.pdf", "d4.pdf">>

\* config.check_attributes
ConfigAttributes == <<BooleanAttribute>>

\* results of analyze_text: parsed responses (text fields and keywords are
\* whatever JSON the service sent) and a failed result
GoodResult ==
    [AnalysisResult("Teil A", "positiv", "Grund", <<"k1", "k2">>, EmptyMap, EmptyMap, None)
        EXCEPT !.prompt_tokens = 10, !.completion_tokens = 5, !.total_tokens = 15]

NumberParaphraseResult == [GoodResult EXCEPT !.paraphrase = JsonNumber]

NumberKeywordResult == [GoodResult EXCEPT !.keywords = <<JsonNumber, "k2">>]

\* analyze_text never raises: it returns the failed result of an empty text
\* without a request, or else a parsed or a failed result
AnalyzeOutcomes(blank) ==
    IF blank THEN {EmptyTextResult}
    ELSE {GoodResult, NumberParaphraseResult, NumberKeywordResult, TimeoutResult}

\* a mutant of Successful: failed results are kept as well
SuccessfulAlways(r) == TRUE

\* `if result.error: ... else: chunk_results.append(result)`
Successful(r) == ~HasError(r)

\* chunk_prompt_tokens / chunk_completion_tokens: summed as results are kept
PromptTokens(results) == SumSeq([i \in DOMAIN results |-> results[i].prompt_tokens])

CompletionTokens(results) ==
    SumSeq([i \in DOMAIN results |-> results[i].completion_tokens])

\* PDFProcessingStats()
NewPDFStats ==
    [total_pdfs |-> 0, successful_pdfs |-> 0, failed_pdfs |-> 0, total_chunks |-> 0,
     errors |-> <<>>, total_prompt_tokens |-> 0, total_completion_tokens |-> 0,
     total_tokens |-> 0]

\* stats.total_pdfs += 1
CountPdf(st) == [st EXCEPT !.total_pdfs = @ + 1]

AddPdfSuccess(st, chunk_count, prompt_tokens, completion_tokens) ==
    [st EXCEPT !.successful_pdfs = @ + 1,
               !.total_chunks = @ + chunk_count,
               !.total_prompt_tokens = @ + prompt_tokens,
               !.total_completion_tokens = @ + completion_tokens,
               !.total_tokens = @ + prompt_tokens + completion_tokens]

AddPdfFailure(st, error_msg) ==
    [st EXCEPT !.failed_pdfs = @ + 1, !.errors = Append(@, error_msg)]

\* ProcessingStats()
NewRowStats ==
    [total_rows |-> 0, successful |-> 0, failed |-> 0, errors |-> <<>>,
     total_prompt_tokens |-> 0, total_completion_tokens |-> 0, total_tokens |-> 0]

AddSuccess(st, prompt_tokens, completion_tokens) ==
    [st EXCEPT !.successful = @ + 1,
               !.total_prompt_tokens = @ + prompt_tokens,
               !.total_completion_tokens = @ + completion_tokens,
               !.total_tokens = @ + prompt_tokens + completion_tokens]

AddFailure(st, error_msg) ==
    [st EXCEPT !.failed = @ + 1, !.errors = Append(@, error_msg)]

\* merge_results(filename, chunk_results, check_attributes) for a non-empty
\* chunk_results: the merged record or the error record of the except branch
MergeResults(filename, results, attrs) ==
    LET t == TryMerge(results, attrs)
    IN  [(IF t.ok THEN t.v ELSE ErrorMergedResult(results)) EXCEPT !.filename = filename]

\* the summary printed after a success raises TypeError when
\* ', '.join(merged_result.keywords[:3]) meets a keyword that is not a str
SummaryRaises(m) == \E i \in 1..Min(3, Len(m.keywords)) : ~IsStr(m.keywords[i])

\* a mutant of AfterFailure: the loop is left (break)
AfterFailureBreak(idx, n) == n

\* `continue` / end of the loop body: the loop goes on with the next document
AfterFailure(idx, n) == idx + 1

RowTexts == {"", "Ein Text."}

RowLists == SeqsUpTo(RowTexts, MaxRows)

BatchInit ==
    /\ \/ /\ \E n \in 0..MaxDocs : pdf_files = SubSeq(DocumentNames, 1, n)
          /\ stats = NewPDFStats
          /\ ppc = "scan"
          /\ sheet_infos = <<>>
       \/ /\ \/ sheet_infos = <<>>
             \/ \E a \in RowLists : sheet_infos = <<a>>
             \/ \E a \in RowLists, b \in RowLists : sheet_infos = <<a, b>>
          /\ stats = NewRowStats
          /\ ppc = "sheets"
          /\ pdf_files = <<>>
    /\ pdf_idx = 0
    /\ p_text = [len |-> 0, ws |-> {}, tm |-> {}]
    /\ p_chunks = <<>>
    /\ p_next = 0
    /\ p_results = <<>>
    /\ p_chunk_results = <<>>
    /\ p_merged = NoResult
    /\ merged_results = <<>>
    /\ s_idx = 0
    /\ r_idx = 0
    /\ sheet_results = <<>>
    /\ all_results = <<>>
    /\ ChunkerIdle
    /\ AnalyzerIdle
    /\ MergerIdle
    /\ CategorizerIdle
    /\ SchemaIdle

\* scan_pdf_directory raises: return [], stats
ScanFails ==
    /\ ppc = "scan"
    /\ ppc' = "scan_failed"
    /\ UNCHANGED <<pdf_files, pdf_idx, pdfLocals, merged_results, excelVars, stats,
                   componentVars>>

\* if not pdf_files: return [], stats
ScanEmpty ==
    /\ ppc = "scan"
    /\ pdf_files = <<>>
    /\ ppc' = "no_files"
    /\ UNCHANGED <<pdf_files, pdf_idx, pdfLocals, merged_results, excelVars, stats,
                   componentVars>>

\* merged_results = []; the loop over pdf_files starts
ScanFinds ==
    /\ ppc = "scan"
    /\ pdf_files # <<>>
    /\ ppc' = "loop"
    /\ UNCHANGED <<pdf_files, pdf_idx, pdfLocals, merged_results, excelVars, stats,
                   componentVars>>

\* loop body: extract_text raises PDFExtractionError
ExtractFails ==
    /\ ppc = "loop"
    /\ pdf_idx < Len(pdf_files)
    /\ stats' = AddPdfFailure(CountPdf(stats), "extraction")
    /\ pdf_idx' = AfterFailure(pdf_idx, Len(pdf_files))
    /\ UNCHANGED <<pdf_files, pdfLocals, merged_results, excelVars, ppc, componentVars>>

\* loop body: text = extract_text(...); chunks = chunk_text(text);
\* chunk_results = []
ChunkDocument ==
    /\ ppc = "loop"
    /\ pdf_idx < Len(pdf_files)
    /\ \E t \in DocTexts :
          LET c == ChunkText(t)
          IN  IF c.ok
              THEN /\ p_text' = t
                   /\ p_chunks' = c.v
                   /\ p_next' = 0
                   /\ p_results' = <<>>
                   /\ p_chunk_results' = <<>>
                   /\ stats' = CountPdf(stats)
                   /\ ppc' = "chunks"
                   /\ UNCHANGED <<pdf_idx, p_merged>>
              ELSE /\ p_text' = t
                   /\ stats' = AddPdfFailure(CountPdf(stats), "unexpected")
                   /\ pdf_idx' = AfterFailure(pdf_idx, Len(pdf_files))
                   /\ UNCHANGED <<p_chunks, p_next, p_results, p_chunk_results, p_merged, ppc>>
    /\ UNCHANGED <<pdf_files, merged_results, excelVars, componentVars>>

\* `for chunk in chunks`: analyze_text returns a result without error
ChunkSucceeds ==
    /\ ppc = "chunks"
    /\ p_next < Len(p_chunks)
    /\ \E r \in AnalyzeOutcomes(Blank(p_chunks[p_next + 1].text)) :
          /\ Successful(r)
          /\ p_results' = Append(p_results, r)
          /\ p_chunk_results' = Append(p_chunk_results, r)
    /\ p_next' = p_next + 1
    /\ UNCHANGED <<pdf_files, pdf_idx, p_text, p_chunks, p_merged, merged_results, excelVars,
                   stats, ppc, componentVars>>

\* `for chunk in chunks`: analyze_text returns a failed result
ChunkFails ==
    /\ ppc = "chunks"
    /\ p_next < Len(p_chunks)
    /\ \E r \in AnalyzeOutcomes(Blank(p_chunks[p_next + 1].text)) :
          /\ ~Successful(r)
          /\ p_results' = Append(p_results, r)
    /\ p_next' = p_next + 1
    /\ UNCHANGED <<pdf_files, pdf_idx, p_text, p_chunks, p_chunk_results, p_merged,
                   merged_results, excelVars, stats, ppc, componentVars>>

\* if not chunk_results: stats.add_pdf_failure(...); continue
AllChunksFailed ==
    /\ ppc = "chunks"
    /\ p_next = Len(p_chunks)
    /\ p_chunk_results = <<>>
    /\ stats' = AddPdfFailure(stats, "all_chunks_failed")
    /\ pdf_idx' = AfterFailure(pdf_idx, Len(pdf_files))
    /\ ppc' = "loop"
    /\ UNCHANGED <<pdf_files, pdfLocals, merged_results, excelVars, componentVars>>

\* merged_result = merge_results(...); if merged_result.error: add_pdf_failure
MergeReportsError ==
    /\ ppc = "chunks"
    /\ p_next = Len(p_chunks)
    /\ p_chunk_results # <<>>
    /\ LET m == MergeResults(pdf_files[pdf_idx + 1], p_chunk_results, ConfigAttributes)
       IN  /\ m.error # None
           /\ p_merged' = m
           /\ stats' = AddPdfFailure(stats, "merge_error")
    /\ pdf_idx' = AfterFailure(pdf_idx, Len(pdf_files))
    /\ ppc' = "loop"
    /\ UNCHANGED <<pdf_files, p_text, p_chunks, p_next, p_results, p_chunk_results,
                   merged_results, excelVars, componentVars>>

\* else: merged_results.append(...); stats.add_pdf_success(...); the summary
\* is printed
MergeSucceeds ==
    /\ ppc = "chunks"
    /\ p_next = Len(p_chunks)
    /\ p_chunk_results # <<>>
    /\ LET m == MergeResults(pdf_files[pdf_idx + 1], p_chunk_results, ConfigAttributes)
       IN  /\ m.error = None
           /\ ~SummaryRaises(m)
           /\ p_merged' = m
           /\ merged_results' = Append(merged_results, m)
           /\ stats' = AddPdfSuccess(stats, Len(p_chunks), PromptTokens(p_chunk_results),
                                     CompletionTokens(p_chunk_results))
    /\ pdf_idx' = pdf_idx + 1
    /\ ppc' = "loop"
    /\ UNCHANGED <<pdf_files, p_text, p_chunks, p_next, p_results, p_chunk_results, excelVars,
                   componentVars>>

\* as MergeSucceeds, but printing the summary raises: `except Exception`
\* records a failure for the document that was just counted as a success
MergeSucceedsSummaryRaises ==
    /\ ppc = "chunks"
    /\ p_next = Len(p_chunks)
    /\ p_chunk_results # <<>>
    /\ LET m == MergeResults(pdf_files[pdf_idx + 1], p_chunk_results, ConfigAttributes)
       IN  /\ m.error = None
           /\ SummaryRaises(m)
           /\ p_merged' = m
           /\ merged_results' = Append(merged_results, m)
           /\ stats' = AddPdfFailure(
                          AddPdfSuccess(stats, Len(p_chunks), PromptTokens(p_chunk_results),
                                        CompletionTokens(p_chunk_results)),
                          "unexpected")
    /\ pdf_idx' = AfterFailure(pdf_idx, Len(pdf_files))
    /\ ppc' = "loop"
    /\ UNCHANGED <<pdf_files, p_text, p_chunks, p_next, p_results, p_chunk_results, excelVars,
                   componentVars>>

\* the loop is exhausted: return merged_results, stats
ReturnResults ==
    /\ ppc = "loop"
    /\ pdf_idx >= Len(pdf_files)
    /\ ppc' = "returned"
    /\ UNCHANGED <<pdf_files, pdf_idx, pdfLocals, merged_results, excelVars, stats,
                   componentVars>>

\* ---- main: the loops over sheets and rows ----
\* for sheet_info in sheet_infos: sheet_results = []; stats.total_rows += ...
BeginSheet ==
    /\ ppc = "sheets"
    /\ s_idx < Len(sheet_infos)
    /\ sheet_results' = <<>>
    /\ stats' = [stats EXCEPT !.total_rows = @ + Len(sheet_infos[s_idx + 1])]
    /\ r_idx' = 0
    /\ ppc' = "rows"
    /\ UNCHANGED <<pdf_files, pdf_idx, pdfLocals, merged_results, sheet_infos, s_idx,
                   all_results, componentVars>>

\* one row: analyze_text returns a result without error
RowSucceeds ==
    /\ ppc = "rows"
    /\ r_idx < Len(sheet_infos[s_idx + 1])
    /\ \E r \in AnalyzeOutcomes(StripText(sheet_infos[s_idx + 1][r_idx + 1]) = "") :
          /\ ~HasError(r)
          /\ stats' = AddSuccess(stats, r.prompt_tokens, r.completion_tokens)
          /\ sheet_results' = Append(sheet_results, r)
    /\ r_idx' = r_idx + 1
    /\ UNCHANGED <<pdf_files, pdf_idx, pdfLocals, merged_results, sheet_infos, s_idx,
                   all_results, ppc, componentVars>>

\* one row: analyze_text returns a failed result
RowFails ==
    /\ ppc = "rows"
    /\ r_idx < Len(sheet_infos[s_idx + 1])
    /\ \E r \in AnalyzeOutcomes(StripText(sheet_infos[s_idx + 1][r_idx + 1]) = "") :
          /\ HasError(r)
          /\ stats' = AddFailure(stats, r.error)
          /\ sheet_results' = Append(sheet_results, r)
    /\ r_idx' = r_idx + 1
    /\ UNCHANGED <<pdf_files, pdf_idx, pdfLocals, merged_results, sheet_infos, s_idx,
                   all_results, ppc, componentVars>>

\* all_results.extend(sheet_results)
EndSheet ==
    /\ ppc = "rows"
    /\ r_idx >= Len(sheet_infos[s_idx + 1])
    /\ all_results' = all_results \o sheet_results
    /\ s_idx' = s_idx + 1
    /\ ppc' = "sheets"
    /\ UNCHANGED <<pdf_files, pdf_idx, pdfLocals, merged_results, sheet_infos, r_idx,
                   sheet_results, stats, componentVars>>

\* the loop over the sheets is exhausted
RowsDone ==
    /\ ppc = "sheets"
    /\ s_idx >= Len(sheet_infos)
    /\ ppc' = "rows_done"
    /\ UNCHANGED <<pdf_files, pdf_idx, pdfLocals, merged_results, excelVars, stats,
                   componentVars>>

BatchNext ==
    \/ ScanFails
    \/ ScanEmpty
    \/ ScanFinds
    \/ ExtractFails
    \/ ChunkDocument
    \/ ChunkSucceeds
    \/ ChunkFails
    \/ AllChunksFailed
    \/ MergeReportsError
    \/ MergeSucceeds
    \/ MergeSucceedsSummaryRaises
    \/ ReturnResults
    \/ BeginSheet
    \/ RowSucceeds
    \/ RowFails
    \/ EndSheet
    \/ RowsDone

SpecBatch == BatchInit /\ [][BatchNext]_vars

\* ---- C15 ----
\* every explored 65,000-character text is cut into exactly three chunks
ThreeChunksOf65000 ==
    \A items \in SubsetsUpTo(Items, MaxSpecial) :
        LET c == ChunkText(MkText(65000, items))
        IN  c.ok /\ Len(c.v) = 3

\* the document last worked on had 65,000 characters, its second chunk's
\* analysis failed, the first and the third succeeded, and merge_results has
\* been called for it
EndToEndScenario ==
    /\ ppc \in {"loop", "returned"}
    /\ p_text.len = 65000
    /\ p_next = 3
    /\ Len(p_results) = 3
    /\ ~HasError(p_results[1])
    /\ HasError(p_results[2])
    /\ ~HasError(p_results[3])

\* the part of the scenario that concerns the call: merge_results received
\* the first and the third result, in that order, and counted two chunks
MergerReceivedFirstAndThird ==
    EndToEndScenario =>
        /\ p_chunk_results = <<p_results[1], p_results[3]>>
        /\ p_merged.chunk_count = 2

\* C15: a 65,000-character document yields exactly 3 chunks whatever its
\* content; when the analysis of the second chunk fails and the first and
\* third succeed, merge_results is called with the first and third result in
\* that order and returns a MergedResult with no error and chunk_count = 2.
C15_EndToEnd ==
    /\ ThreeChunksOf65000
    /\ MergerReceivedFirstAndThird
    /\ EndToEndScenario => p_merged.error = None

\* ---- C16 ----
\* rows of the first n sheets
RECURSIVE RowsOf(_, _)
RowsOf(sheets, n) == IF n = 0 THEN 0 ELSE RowsOf(sheets, n - 1) + Len(sheets[n])

\* C16: a failed unit never stops the batch.  In process_pdf_mode the
\* documents are visited one after the other whatever happened to the
\* earlier ones (extraction failure, all chunks failed, merge error,
\* unexpected exception), and total_pdfs ends equal to the number of
\* discovered documents; in the row loop every row appends exactly one
\* result and the loop goes on with the next row, so the run ends with one
\* result per row, each counted as a success or as a failure.
C16_BatchContinues ==
    /\ ppc = "loop" =>
          /\ pdf_idx <= Len(pdf_files)
          /\ stats.total_pdfs = pdf_idx
    /\ ppc = "chunks" =>
          /\ pdf_idx < Len(pdf_files)
          /\ stats.total_pdfs = pdf_idx + 1
    /\ ppc = "returned" =>
          /\ pdf_idx = Len(pdf_files)
          /\ stats.total_pdfs = Len(pdf_files)
          /\ stats.failed_pdfs = Len(stats.errors)
          /\ stats.successful_pdfs = Len(merged_results)
    /\ ppc = "rows" =>
          /\ r_idx <= Len(sheet_infos[s_idx + 1])
          /\ Len(sheet_results) = r_idx
          /\ Len(all_results) = RowsOf(sheet_infos, s_idx)
    /\ ppc = "sheets" =>
          /\ s_idx <= Len(sheet_infos)
          /\ Len(all_results) = RowsOf(sheet_infos, s_idx)
    /\ ppc = "rows_done" =>
          /\ Len(all_results) = RowsOf(sheet_infos, Len(sheet_infos))
          /\ stats.total_rows = Len(all_results)
          /\ stats.successful + stats.failed = Len(all_results)
          /\ stats.failed = Len(stats.errors)

\* the first of two documents failed in extraction and the second one was
\* analysed and merged
C16_Witness ==
    /\ ppc = "returned"
    /\ Len(pdf_files) = 2
    /\ stats.errors = <<"extraction">>
    /\ stats.successful_pdfs = 1
    /\ Len(merged_results) = 1
    /\ merged_results[1].filename = DocumentNames[2]

\* a failed row in the middle of a sheet is followed by a successful one
RowAfterFailedRow ==
    /\ ppc = "rows_done"
    /\ Len(all_results) >= 2
    /\ HasError(all_results[1])
    /\ ~HasError(all_results[2])

\* ---- the counters of process_pdf_mode (C29, C30) ----
\* between two iterations of the document loop, or after it
BetweenDocuments == pdf_files # <<>> /\ ppc \in {"loop", "returned"}

\* the position of a document in the discovered list
PositionOf(name) == CHOOSE k \in DOMAIN pdf_files : pdf_files[k] = name

\* the collected results are as many as the successes, are free of error,
\* hold at least one chunk and keep the order of the documents
CollectedMatchesSuccesses ==
    BetweenDocuments =>
        /\ stats.total_pdfs = pdf_idx
        /\ Len(merged_results) = stats.successful_pdfs
        /\ \A i \in DOMAIN merged_results :
              /\ merged_results[i].error = None
              /\ merged_results[i].chunk_count >= 1
              /\ merged_results[i].filename \in Range(SubSeq(pdf_files, 1, pdf_idx))
        /\ \A i \in DOMAIN merged_results, j \in DOMAIN merged_results :
              i < j => PositionOf(merged_results[i].filename)
                          < PositionOf(merged_results[j].filename)

\* C29: in process_pdf_mode each visited document is counted exactly once as
\* either successful or failed: after every iteration of the document loop
\* successful_pdfs + failed_pdfs = total_pdfs, the number of collected
\* MergedResults equals successful_pdfs, every collected MergedResult has no
\* error and chunk_count >= 1, and the collected results keep the order of
\* the documents.
C29_CountedOnce ==
    /\ BetweenDocuments => stats.successful_pdfs + stats.failed_pdfs = stats.total_pdfs
    /\ CollectedMatchesSuccesses

\* a batch of one document has ended with the document counted as a success
\* and as a failure
CountedTwice ==
    /\ ppc = "returned"
    /\ Len(pdf_files) = 1
    /\ stats.total_pdfs = 1
    /\ stats.successful_pdfs = 1
    /\ stats.failed_pdfs = 1
    /\ Len(merged_results) = 1

\* this step counts the current document as successful / as failed
CountsSuccess == stats'.successful_pdfs = stats.successful_pdfs + 1

CountsFailure == stats'.failed_pdfs = stats.failed_pdfs + 1

\* this step leaves the chunk and token totals alone
TotalsUnchanged ==
    /\ stats'.total_chunks = stats.total_chunks
    /\ stats'.total_prompt_tokens = stats.total_prompt_tokens
    /\ stats'.total_completion_tokens = stats.total_completion_tokens
    /\ stats'.total_tokens = stats.total_tokens

\* sum of chunk_count over the collected results, as generate_pdf_statistics
\* computes it
MergedChunks(results) == SumSeq([i \in DOMAIN results |-> results[i].chunk_count])

\* a step that counts a success adds the number of chunks the chunker
\* produced, failed chunks included, and the tokens of the kept results only;
\* the result it collects counts the merged chunks, which are all the chunks
\* iff no chunk failed; every other step leaves the totals alone
ChunksOfSuccessesCounted ==
    /\ IF CountsSuccess
       THEN /\ stats'.total_chunks = stats.total_chunks + Len(p_chunks)
            /\ stats'.total_prompt_tokens =
                  stats.total_prompt_tokens + PromptTokens(p_chunk_results)
            /\ stats'.total_completion_tokens =
                  stats.total_completion_tokens + CompletionTokens(p_chunk_results)
            /\ stats'.total_tokens =
                  stats.total_tokens + PromptTokens(p_chunk_results)
                                     + CompletionTokens(p_chunk_results)
            /\ Len(merged_results') = Len(merged_results) + 1
            /\ merged_results'[Len(merged_results')].chunk_count = Len(p_chunk_results)
            /\ Len(p_chunk_results) <= Len(p_chunks)
            /\ Len(p_chunk_results) = Len(p_chunks) <=>
                  \A i \in DOMAIN p_results : Successful(p_results[i])
       ELSE TotalsUnchanged /\ merged_results' = merged_results
    /\ stats'.total_chunks >= MergedChunks(merged_results')

\* C30: total_chunks at the end of a batch is the sum, over the documents
\* counted as successful, of the number of chunks the chunker produced for
\* the document, failed chunks included; it is therefore >= the sum of
\* chunk_count over the returned MergedResults, with equality iff no chunk of
\* a successful document failed; chunks of failed documents and the tokens of
\* failed chunks are not counted at all.
C30_TotalChunks ==
    [][pdf_files # <<>> =>
          /\ ChunksOfSuccessesCounted
          /\ CountsFailure => TotalsUnchanged]_vars

\* the part of C30 about the documents counted as successful
SuccessfulChunksCounted == [][pdf_files # <<>> => ChunksOfSuccessesCounted]_vars

\* a batch has ended with a document of three chunks, one of them failed,
\* counted as successful: three chunks counted, two merged
FailedChunkCounted ==
    /\ ppc = "returned"
    /\ stats.successful_pdfs = 1
    /\ stats.failed_pdfs = 0
    /\ stats.total_chunks = 3
    /\ MergedChunks(merged_results) = 2

\* a batch has ended with its only document counted as failed and one chunk
\* counted
FailedDocumentChunkCounted ==
    /\ ppc = "returned"
    /\ stats.total_pdfs = 1
    /\ stats.failed_pdfs = 1
    /\ stats.total_chunks = 1

\* ========================================================================
\* CheckAttribute (models.py)
\* ========================================================================
\* the argument categories: None, or a list
NoCategories == [present |-> FALSE, items |-> <<>>]

Categories(items) == [present |-> TRUE, items |-> items]

\* the arguments explored: question None, empty, whitespace only or with
\* content; answer types inside and outside the enumeration; categories
\* absent, empty, with one item, with repeated items, with distinct items,
\* with an item that is not a str
Questions == {None, "", "   ", "q1"}

AnswerTypes == {"boolean", "categorical", "multi_categorical", "numeric", ""}

CategoryArguments ==
    {NoCategories, Categories(<<>>), Categories(<<"a">>), Categories(<<"a", "a">>),
     Categories(<<"a", "b">>), Categories(<<"a", "b", "a">>), Categories(<<"a", "b", "c">>),
     Categories(<<JsonNumber, "b">>)}

Arguments(question, answer_type, categories) ==
    [question |-> question, answer_type |-> answer_type, categories |-> categories]

\* CheckAttribute.__post_init__: the ValueError it raises, or None
CheckAttributeError(a) ==
    IF a.answer_type \notin {"boolean", "categorical", "multi_categorical"}
    THEN "answer_type"
    ELSE IF a.question = None \/ a.question = "" \/ StripText(a.question) = ""
    THEN "question"
    ELSE IF /\ a.answer_type \in {"categorical", "multi_categorical"}
            /\ (~a.categories.present \/ a.categories.items = <<>>)
    THEN "categories_missing"
    ELSE IF /\ a.answer_type \in {"categorical", "multi_categorical"}
            /\ Len(a.categories.items) < 2
    THEN "categories_too_few"
    ELSE IF a.answer_type = "boolean" /\ a.categories.present
    THEN "categories_given"
    ELSE None

SchemaInit ==
    /\ \E q \in Questions, t \in AnswerTypes, c \in CategoryArguments :
          attr_args = Arguments(q, t, c)
    /\ check_attribute = NoResult
    /\ spc = "start"
    /\ ChunkerIdle
    /\ AnalyzerIdle
    /\ MergerIdle
    /\ CategorizerIdle
    /\ PipelineIdle

\* the dataclass is built and __post_init__ returns
ConstructSucceeds ==
    /\ spc = "start"
    /\ CheckAttributeError(attr_args) = None
    /\ check_attribute' = attr_args
    /\ spc' = "constructed"
    /\ UNCHANGED <<attr_args, chunkerVars, analyzerVars, mergerVars, categorizerVars,
                   pipelineVars>>

\* __post_init__ raises ValueError
ConstructRaises ==
    /\ spc = "start"
    /\ CheckAttributeError(attr_args) # None
    /\ spc' = "raised"
    /\ UNCHANGED <<attr_args, check_attribute, chunkerVars, analyzerVars, mergerVars, categorizerVars,
                   pipelineVars>>

SchemaNext == ConstructSucceeds \/ ConstructRaises

SpecSchema == SchemaInit /\ [][SchemaNext]_vars

\* the items are pairwise distinct
Distinct(items) == \A i \in DOMAIN items, j \in DOMAIN items : i # j => items[i] # items[j]

\* the arguments the claim admits
Admitted(a) ==
    /\ a.question \notin {None, ""}
    /\ a.answer_type \in {"boolean", "categorical", "multi_categorical"}
    /\ a.answer_type = "boolean" => ~a.categories.present
    /\ a.answer_type # "boolean" =>
          /\ a.categories.present
          /\ Len(a.categories.items) >= 2
          /\ \A i \in DOMAIN a.categories.items : IsStr(a.categories.items[i])
          /\ Distinct(a.categories.items)

\* C25: constructing a CheckAttribute succeeds iff question is non-empty,
\* answer_type is one of boolean, categorical, multi_categorical, and
\* categories is a list of at least 2 distinct strings when answer_type is
\* not boolean and is absent when it is boolean; every other combination is
\* rejected at construction, for example a categorical attribute whose list
\* repeats the same string twice.
C25_Validation ==
    /\ spc = "constructed" => Admitted(attr_args)
    /\ spc = "raised" => ~Admitted(attr_args)

\* what the construction does enforce
ConstructedIsChecked ==
    spc = "constructed" =>
        /\ check_attribute.answer_type \in {"boolean", "categorical", "multi_categorical"}
        /\ check_attribute.question \notin {None, "", "   "}
        /\ check_attribute.answer_type = "boolean" => ~check_attribute.categories.present
        /\ check_attribute.answer_type # "boolean" =>
              check_attribute.categories.present /\ Len(check_attribute.categories.items) >= 2

\* a categorical attribute whose list repeats the same string twice has been
\* constructed
RepeatedCategoryAccepted ==
    /\ spc = "constructed"
    /\ check_attribute.answer_type = "categorical"
    /\ check_attribute.categories = Categories(<<"a", "a">>)

====
